---- MODULE Spec2Model ----
(***************************************************************************)
(* Model of library/src/regex-parser.ts of valibot-mock: the pattern       *)
(* parser wrapper, the length estimator, the two quantifier rewriters, the *)
(* candidate generator and the public bounding operation; and of the      *)
(* schema walker (createMockGenerator, handleSchema, schemaHandlers).      *)
(*                                                                         *)
(* Pattern text is a sequence of one-character strings; a decimal number   *)
(* is one element (its numeral).  Pattern trees are records carrying the   *)
(* node fields of the regexpp AST that the code reads.                     *)
(*                                                                         *)
(* A value that a function computes once and reads several times is bound  *)
(* once, by a comprehension over a singleton: The({ e(v) : v \in {value} })*)
(* is e(value).                                                            *)
(***************************************************************************)
EXTENDS Integers, Sequences, FiniteSets, TLC

(***************************************************************************)
(* Bounds of the model.                                                    *)
(***************************************************************************)
\* largest requested minLength / maxLength
MaxLength == 3
\* largest candidateCount passed by the caller
MaxCandidateCount == 2
\* a maxLength far enough from every minLength for the large-range targets
WideLength == 24
\* largest maxAttempts passed to createMockGenerator
MaxAttempts == 2
\* largest count passed to generateMany
MaxCount == 2

(***************************************************************************)
(* Program constants.                                                      *)
(***************************************************************************)
\* JavaScript Infinity, the max of an unbounded quantifier (a+, a*, a{n,})
Infinity == 1000000
\* the estimator's "max: null" (no finite upper bound)
NULL == -1
\* candidateCount || 5
DefaultCandidateCount == 5
\* options.maxAttempts ?? 10
DefaultMaxAttempts == 10
\* the number handler's range without min / max items: -1000 .. 1000
DefaultNumberRange == 1000
\* growable test: q.max === Infinity ? 1000 : q.max
GrowableCap == 1000
\* widened window of the infeasible branch: currentEstimate.min + 10
WidenedWindow == 10
\* range <= 20 selects the three-target sampling
SmallRange == 20

The(S) == CHOOSE v \in S : TRUE

\* numerals that can occur in pattern text, and the numbers they denote
NumeralRange == (0..64) \cup (1000..1010)
Numerals == {ToString(n) : n \in NumeralRange}
NumeralTable == [c \in Numerals |-> CHOOSE n \in NumeralRange : ToString(n) = c]
NumeralValue(c) == NumeralTable[c]

Min2(a, b) == IF a <= b THEN a ELSE b
Max2(a, b) == IF a >= b THEN a ELSE b

RECURSIVE Concat(_)
Concat(ss) == IF ss = <<>> THEN <<>> ELSE Head(ss) \o Concat(Tail(ss))

RECURSIVE Join(_, _)
Join(ss, sep) ==
  IF ss = <<>> THEN <<>>
  ELSE IF Len(ss) = 1 THEN ss[1]
  ELSE ss[1] \o sep \o Join(Tail(ss), sep)

Range(seq) == {seq[i] : i \in 1..Len(seq)}

(***************************************************************************)
(* 2. PARSER WRAPPER                                                       *)
(* parseRegExpLiteral of regexpp, for patterns without the u/v flags       *)
(* (ECMAScript Annex B grammar), restricted to the constructs below.       *)
(***************************************************************************)
At(s, i) == IF i >= 1 /\ i <= Len(s) THEN s[i] ELSE "EOF"

Fail == [ok |-> FALSE, val |-> <<>>, pos |-> 0]
Ok(v, p) == [ok |-> TRUE, val |-> v, pos |-> p]

Character(c) == [type |-> "Character", value |-> c]
CharacterSet(k, n) == [type |-> "CharacterSet", kind |-> k, negate |-> n]
EdgeAssertion(k, n) == [type |-> "Assertion", kind |-> k, negate |-> n, alternatives |-> <<>>]

\* {n}  {n,}  {n,m} starting at s[i]; present = FALSE when the text is not a
\* braced quantifier, ok = FALSE when its numbers are out of order
eatBracedQuantifier(s, i) ==
  LET none == [present |-> FALSE, ok |-> TRUE, min |-> 0, max |-> 0, pos |-> i]
  IN IF At(s, i) = "{" /\ At(s, i + 1) \in Numerals
     THEN LET n == NumeralValue(At(s, i + 1))
          IN IF At(s, i + 2) = "}"
             THEN [present |-> TRUE, ok |-> TRUE, min |-> n, max |-> n, pos |-> i + 3]
             ELSE IF At(s, i + 2) = "," /\ At(s, i + 3) = "}"
             THEN [present |-> TRUE, ok |-> TRUE, min |-> n, max |-> Infinity, pos |-> i + 4]
             ELSE IF At(s, i + 2) = "," /\ At(s, i + 3) \in Numerals /\ At(s, i + 4) = "}"
             THEN LET m == NumeralValue(At(s, i + 3))
                  IN [present |-> TRUE, ok |-> n <= m, min |-> n, max |-> m, pos |-> i + 5]
             ELSE none
     ELSE none

\* * + ? {..} with an optional lazy marker
consumeQuantifier(s, i) ==
  The({ IF q.present /\ At(s, q.pos) = "?"
        THEN [present |-> TRUE, ok |-> q.ok, min |-> q.min, max |-> q.max,
              greedy |-> FALSE, pos |-> q.pos + 1]
        ELSE [present |-> q.present, ok |-> q.ok, min |-> q.min, max |-> q.max,
              greedy |-> TRUE, pos |-> q.pos]
        : q \in { IF At(s, i) = "*"
                  THEN [present |-> TRUE, ok |-> TRUE, min |-> 0, max |-> Infinity, pos |-> i + 1]
                  ELSE IF At(s, i) = "+"
                  THEN [present |-> TRUE, ok |-> TRUE, min |-> 1, max |-> Infinity, pos |-> i + 1]
                  ELSE IF At(s, i) = "?"
                  THEN [present |-> TRUE, ok |-> TRUE, min |-> 0, max |-> 1, pos |-> i + 1]
                  ELSE eatBracedQuantifier(s, i) } })

\* \d \D \w \W \s \S
EscapeSets ==
  [d |-> CharacterSet("digit", FALSE), D |-> CharacterSet("digit", TRUE),
   w |-> CharacterSet("word", FALSE),  W |-> CharacterSet("word", TRUE),
   s |-> CharacterSet("space", FALSE), S |-> CharacterSet("space", TRUE)]

\* one member of a character class
consumeClassAtom(s, i) ==
  IF At(s, i) = "\\"
  THEN IF At(s, i + 1) = "EOF" THEN Fail
       ELSE IF At(s, i + 1) \in DOMAIN EscapeSets
       THEN Ok(EscapeSets[At(s, i + 1)], i + 2)
       ELSE Ok(Character(At(s, i + 1)), i + 2)
  ELSE Ok(Character(At(s, i)), i + 1)

\* the members of a character class up to its closing bracket
RECURSIVE consumeClassContents(_, _, _)
consumeClassContents(s, i, acc) ==
  IF At(s, i) = "EOF" THEN Fail
  ELSE IF At(s, i) = "]" THEN Ok(acc, i + 1)
  ELSE The({ IF ~item.ok THEN Fail
             ELSE IF item.val.type = "Character" /\ At(s, item.pos) = "-"
                     /\ At(s, item.pos + 1) \notin {"]", "EOF", "\\"}
             THEN consumeClassContents(s, item.pos + 2,
                    Append(acc, [type |-> "CharacterClassRange", min |-> item.val,
                                 max |-> Character(At(s, item.pos + 1))]))
             ELSE consumeClassContents(s, item.pos, Append(acc, item.val))
             : item \in {consumeClassAtom(s, i)} })

\* [ ... ] and [^ ... ]
consumeCharacterClass(s, i) ==
  The({ IF m.ok
        THEN Ok([type |-> "CharacterClass", negate |-> At(s, i + 1) = "^", elements |-> m.val], m.pos)
        ELSE Fail
        : m \in {consumeClassContents(s, IF At(s, i + 1) = "^" THEN i + 2 ELSE i + 1, <<>>)} })

\* the construct a parenthesis opens, and where its contents start
groupKind(s, i) ==
  IF At(s, i + 1) # "?"
  THEN [ok |-> TRUE, type |-> "CapturingGroup", name |-> "", k |-> "", negate |-> FALSE, start |-> i + 1]
  ELSE IF At(s, i + 2) = ":"
  THEN [ok |-> TRUE, type |-> "Group", name |-> "", k |-> "", negate |-> FALSE, start |-> i + 3]
  ELSE IF At(s, i + 2) = "="
  THEN [ok |-> TRUE, type |-> "Assertion", name |-> "", k |-> "lookahead", negate |-> FALSE, start |-> i + 3]
  ELSE IF At(s, i + 2) = "!"
  THEN [ok |-> TRUE, type |-> "Assertion", name |-> "", k |-> "lookahead", negate |-> TRUE, start |-> i + 3]
  ELSE IF At(s, i + 2) = "<" /\ At(s, i + 3) = "="
  THEN [ok |-> TRUE, type |-> "Assertion", name |-> "", k |-> "lookbehind", negate |-> FALSE, start |-> i + 4]
  ELSE IF At(s, i + 2) = "<" /\ At(s, i + 3) = "!"
  THEN [ok |-> TRUE, type |-> "Assertion", name |-> "", k |-> "lookbehind", negate |-> TRUE, start |-> i + 4]
  ELSE IF At(s, i + 2) = "<" /\ At(s, i + 3) \in {"x", "y"} /\ At(s, i + 4) = ">"
  THEN [ok |-> TRUE, type |-> "CapturingGroup", name |-> At(s, i + 3), k |-> "", negate |-> FALSE, start |-> i + 5]
  ELSE [ok |-> FALSE, type |-> "", name |-> "", k |-> "", negate |-> FALSE, start |-> 0]

RECURSIVE consumeDisjunction(_, _)
RECURSIVE consumeAlternative(_, _, _)
RECURSIVE consumeTerm(_, _)
RECURSIVE consumeAtom(_, _)
RECURSIVE consumeGroup(_, _)

\* ( ... )  (?: ... )  (?<x> ... )  (?= ... )  (?! ... )  (?<= ... )  (?<! ... )
consumeGroup(s, i) ==
  The({ IF ~kind.ok THEN Fail
        ELSE The({ IF ~d.ok \/ At(s, d.pos) # ")" THEN Fail
                   ELSE IF kind.type = "CapturingGroup"
                   THEN Ok([type |-> "CapturingGroup", name |-> kind.name,
                            alternatives |-> d.val], d.pos + 1)
                   ELSE IF kind.type = "Group"
                   THEN Ok([type |-> "Group", alternatives |-> d.val], d.pos + 1)
                   ELSE Ok([type |-> "Assertion", kind |-> kind.k, negate |-> kind.negate,
                            alternatives |-> d.val], d.pos + 1)
                   : d \in {consumeDisjunction(s, kind.start)} })
        : kind \in {groupKind(s, i)} })

\* \b \B \d ... \1 \k<x> and escaped characters
consumeEscape(s, i) ==
  The({ IF e = "EOF" THEN Fail
        ELSE IF e = "b" THEN Ok(EdgeAssertion("word", FALSE), i + 2)
        ELSE IF e = "B" THEN Ok(EdgeAssertion("word", TRUE), i + 2)
        ELSE IF e \in DOMAIN EscapeSets THEN Ok(EscapeSets[e], i + 2)
        ELSE IF e \in Numerals
        THEN Ok([type |-> "Backreference", ref |-> NumeralValue(e), byName |-> FALSE], i + 2)
        ELSE IF e = "k" /\ At(s, i + 2) = "<" /\ At(s, i + 4) = ">"
        THEN Ok([type |-> "Backreference", ref |-> At(s, i + 3), byName |-> TRUE], i + 5)
        ELSE Ok(Character(e), i + 2)
        : e \in {At(s, i + 1)} })

\* an assertion or an atom, without its quantifier
consumeAtom(s, i) ==
  The({ IF c = "^" THEN Ok(EdgeAssertion("start", FALSE), i + 1)
        ELSE IF c = "$" THEN Ok(EdgeAssertion("end", FALSE), i + 1)
        ELSE IF c = "." THEN Ok(CharacterSet("any", FALSE), i + 1)
        ELSE IF c \in {"*", "+", "?"} THEN Fail
        ELSE IF c = "{"
        THEN (IF eatBracedQuantifier(s, i).present THEN Fail ELSE Ok(Character(c), i + 1))
        ELSE IF c = "(" THEN consumeGroup(s, i)
        ELSE IF c = "[" THEN consumeCharacterClass(s, i)
        ELSE IF c = "\\" THEN consumeEscape(s, i)
        ELSE Ok(Character(c), i + 1)
        : c \in {At(s, i)} })

\* one term: an assertion, or an atom with its optional quantifier
consumeTerm(s, i) ==
  The({ IF ~atom.ok THEN Fail
        ELSE IF atom.val.type = "Assertion" /\ atom.val.kind # "lookahead" THEN atom
        ELSE The({ IF ~q.present THEN atom
                   ELSE IF q.ok
                   THEN Ok([type |-> "Quantifier", min |-> q.min, max |-> q.max,
                            greedy |-> q.greedy, element |-> atom.val, start |-> i], q.pos)
                   ELSE Fail
                   : q \in {consumeQuantifier(s, atom.pos)} })
        : atom \in {consumeAtom(s, i)} })

consumeAlternative(s, i, acc) ==
  IF At(s, i) \in {"|", ")", "EOF"}
  THEN Ok([type |-> "Alternative", elements |-> acc], i)
  ELSE The({ IF t.ok THEN consumeAlternative(s, t.pos, Append(acc, t.val)) ELSE Fail
             : t \in {consumeTerm(s, i)} })

consumeDisjunction(s, i) ==
  The({ IF ~a.ok THEN Fail
        ELSE IF At(s, a.pos) = "|"
        THEN The({ IF rest.ok THEN Ok(<<a.val>> \o rest.val, rest.pos) ELSE Fail
                   : rest \in {consumeDisjunction(s, a.pos + 1)} })
        ELSE Ok(<<a.val>>, a.pos)
        : a \in {consumeAlternative(s, i, <<>>)} })

\* index of the solidus that ends the body of the literal, 0 when unterminated
RECURSIVE eatRegExpBody(_, _, _, _)
eatRegExpBody(s, i, inClass, escaped) ==
  IF At(s, i) = "EOF" THEN 0
  ELSE IF At(s, i) = "/" /\ ~inClass /\ ~escaped THEN i
  ELSE eatRegExpBody(s, i + 1,
         IF escaped THEN inClass
         ELSE IF At(s, i) = "[" THEN TRUE
         ELSE IF At(s, i) = "]" THEN FALSE
         ELSE inClass,
         ~escaped /\ At(s, i) = "\\")

FlagLetters == {"d", "g", "i", "m", "s", "u", "v", "y"}

validFlags(flags) ==
  \A k \in 1..Len(flags) :
    flags[k] \in FlagLetters /\ \A j \in 1..(k - 1) : flags[j] # flags[k]

\* the literal /body/flags whose body ends at bodyEnd
parseRegExpLiteralAt(source, bodyEnd) ==
  IF At(source, 1) # "/" \/ bodyEnd = 0 \/ bodyEnd = 2 THEN [ok |-> FALSE]
  ELSE IF ~validFlags(SubSeq(source, bodyEnd + 1, Len(source))) THEN [ok |-> FALSE]
  ELSE The({ IF ~d.ok \/ d.pos # bodyEnd - 1 THEN [ok |-> FALSE]
             ELSE [ok |-> TRUE, pattern |-> [type |-> "Pattern", alternatives |-> d.val],
                   flags |-> SubSeq(source, bodyEnd + 1, Len(source))]
             : d \in {consumeDisjunction(SubSeq(source, 2, bodyEnd - 1), 1)} })

parseRegExpLiteral(source) == parseRegExpLiteralAt(source, eatRegExpBody(source, 2, FALSE, FALSE))

\* a value of type string | RegExp
RegExpOf(src, fl) == [isRegExp |-> TRUE, source |-> src, flags |-> fl]
StringOf(txt) == [isRegExp |-> FALSE, source |-> txt, flags |-> <<>>]

startsWithSlash(t) == At(t, 1) = "/"
lastIndexOfSlash(t) ==
  IF \E k \in 1..Len(t) : t[k] = "/"
  THEN CHOOSE k \in 1..Len(t) : t[k] = "/" /\ \A j \in (k + 1)..Len(t) : t[j] # "/"
  ELSE 0

Thrown == [threw |-> TRUE]

\* parseRegex returning the default version of the generator's constructor
\* instead of throwing
parseRegex_DefaultOnFailure(regex) ==
  The({ IF ast.ok
        THEN [threw |-> FALSE, pattern |-> ast.pattern, flags |-> ast.flags,
              source |-> IF regex.isRegExp THEN regex.source
                         ELSE IF startsWithSlash(regex.source)
                         THEN SubSeq(regex.source, 2, lastIndexOfSlash(regex.source) - 1)
                         ELSE regex.source]
        ELSE [threw |-> FALSE, pattern |-> [type |-> "Unknown"], flags |-> <<>>,
              source |-> regex.source]
        : ast \in { parseRegExpLiteral(IF regex.isRegExp
                                       THEN <<"/">> \o regex.source \o <<"/">> \o regex.flags
                                       ELSE IF startsWithSlash(regex.source) THEN regex.source
                                       ELSE <<"/">> \o regex.source \o <<"/">>) } })

parseRegex(regex) ==
  The({ IF ast.ok
        THEN [threw |-> FALSE, pattern |-> ast.pattern, flags |-> ast.flags,
              source |-> IF regex.isRegExp THEN regex.source
                         ELSE IF startsWithSlash(regex.source)
                         THEN SubSeq(regex.source, 2, lastIndexOfSlash(regex.source) - 1)
                         ELSE regex.source]
        ELSE Thrown
        : ast \in { parseRegExpLiteral(IF regex.isRegExp
                                       THEN <<"/">> \o regex.source \o <<"/">> \o regex.flags
                                       ELSE IF startsWithSlash(regex.source) THEN regex.source
                                       ELSE <<"/">> \o regex.source \o <<"/">>) } })

(***************************************************************************)
(* 3. LENGTH ESTIMATORS                                                    *)
(* A bound is [min, max] with max = NULL for "no finite upper bound".      *)
(***************************************************************************)
RECURSIVE visitNode(_)
RECURSIVE visitAlternatives(_)
RECURSIVE visitSequence(_)
RECURSIVE visitQuantifier(_)

\* visitQuantifier multiplying the counts without the bound of the element
visitQuantifier_CountOnly(node) ==
  The({ IF node.max = Infinity THEN [min |-> node.min, max |-> NULL]
        ELSE IF elementResult.max = NULL THEN [min |-> node.min, max |-> NULL]
        ELSE [min |-> node.min, max |-> node.max]
        : elementResult \in {visitNode(node.element)} })

\* visitQuantifier taking a repetition of zero times for the empty match
visitQuantifier_NothingRepeated(node) ==
  The({ IF node.max = 0 THEN [min |-> 0, max |-> 0]
        ELSE IF node.max = Infinity THEN [min |-> node.min * elementResult.min, max |-> NULL]
        ELSE IF elementResult.max = NULL THEN [min |-> node.min * elementResult.min, max |-> NULL]
        ELSE [min |-> node.min * elementResult.min, max |-> node.max * elementResult.max]
        : elementResult \in {visitNode(node.element)} })

visitQuantifier(node) ==
  The({ IF node.max = Infinity THEN [min |-> node.min * elementResult.min, max |-> NULL]
        ELSE IF elementResult.max = NULL THEN [min |-> node.min * elementResult.min, max |-> NULL]
        ELSE [min |-> node.min * elementResult.min, max |-> node.max * elementResult.max]
        : elementResult \in {visitNode(node.element)} })

\* visitSequence counting on after an unbounded element
visitSequence_ResumedAfterUnbounded(elements) ==
  IF elements = <<>> THEN [min |-> 0, max |-> 0]
  ELSE The({ [min |-> total.min + r.min,
              max |-> IF r.max = NULL THEN NULL
                      ELSE IF total.max # NULL THEN total.max + r.max
                      ELSE r.max]
             : total \in {visitSequence(SubSeq(elements, 1, Len(elements) - 1))},
               r \in {visitNode(elements[Len(elements)])} })

\* the loop of visitSequence: total after the last element
visitSequence(elements) ==
  IF elements = <<>> THEN [min |-> 0, max |-> 0]
  ELSE The({ [min |-> total.min + r.min,
              max |-> IF r.max = NULL THEN NULL
                      ELSE IF total.max # NULL THEN total.max + r.max
                      ELSE NULL]
             : total \in {visitSequence(SubSeq(elements, 1, Len(elements) - 1))},
               r \in {visitNode(elements[Len(elements)])} })

\* visitAlternatives with Math.min in place of Math.max
visitAlternatives_SmallestMax(alternatives) ==
  IF alternatives = <<>> THEN [min |-> 0, max |-> 0]
  ELSE IF Len(alternatives) = 1
  THEN The({ [min |-> r.min, max |-> IF r.max = NULL THEN NULL ELSE Min2(0, r.max)]
             : r \in {visitSequence(alternatives[1].elements)} })
  ELSE The({ [min |-> Min2(overall.min, r.min),
              max |-> IF r.max = NULL \/ overall.max = NULL THEN NULL
                      ELSE Min2(overall.max, r.max)]
             : overall \in {visitAlternatives(SubSeq(alternatives, 1, Len(alternatives) - 1))},
               r \in {visitSequence(alternatives[Len(alternatives)].elements)} })

\* the loop of visitAlternatives: overall bound after the last alternative
visitAlternatives(alternatives) ==
  IF alternatives = <<>> THEN [min |-> 0, max |-> 0]
  ELSE IF Len(alternatives) = 1
  THEN The({ [min |-> r.min, max |-> IF r.max = NULL THEN NULL ELSE Max2(0, r.max)]
             : r \in {visitSequence(alternatives[1].elements)} })
  ELSE The({ [min |-> Min2(overall.min, r.min),
              max |-> IF r.max = NULL \/ overall.max = NULL THEN NULL
                      ELSE Max2(overall.max, r.max)]
             : overall \in {visitAlternatives(SubSeq(alternatives, 1, Len(alternatives) - 1))},
               r \in {visitSequence(alternatives[Len(alternatives)].elements)} })

\* visitNode taking a lookaround for a group
visitNode_LookaroundEntered(node) ==
  CASE node.type = "Pattern" -> visitAlternatives(node.alternatives)
    [] node.type = "Alternative" -> visitSequence(node.elements)
    [] node.type \in {"Character", "CharacterSet", "CharacterClass"} -> [min |-> 1, max |-> 1]
    [] node.type = "Quantifier" -> visitQuantifier(node)
    [] node.type \in {"Group", "CapturingGroup", "Assertion"} ->
         IF Len(node.alternatives) > 0 THEN visitAlternatives(node.alternatives)
         ELSE [min |-> 0, max |-> 0]
    [] node.type = "Backreference" -> [min |-> 0, max |-> NULL]
    [] OTHER -> [min |-> 0, max |-> 0]

visitNode(node) ==
  CASE node.type = "Pattern" -> visitAlternatives(node.alternatives)
    [] node.type = "Alternative" -> visitSequence(node.elements)
    [] node.type \in {"Character", "CharacterSet", "CharacterClass"} -> [min |-> 1, max |-> 1]
    [] node.type = "Quantifier" -> visitQuantifier(node)
    [] node.type \in {"Group", "CapturingGroup"} ->
         IF Len(node.alternatives) > 0 THEN visitAlternatives(node.alternatives)
         ELSE [min |-> 0, max |-> 0]
    [] node.type = "Assertion" -> [min |-> 0, max |-> 0]
    [] node.type = "Backreference" -> [min |-> 0, max |-> NULL]
    [] OTHER -> [min |-> 0, max |-> 0]

estimate(node) == visitNode(node)

(***************************************************************************)
(* 4. MIN/MAX TRANSFORMER and the ConfigurableTransformer of section 5.    *)
(* The two classes share every method but transformQuantifier; a           *)
(* transformer t is [kind |-> "MinMax", minTarget, maxTarget, preferLazy]  *)
(* or [kind |-> "Configurable", quantifierConfig].                         *)
(***************************************************************************)
MinMaxTransformer(minTarget, maxTarget, preferLazy) ==
  [kind |-> "MinMax", minTarget |-> minTarget, maxTarget |-> maxTarget, preferLazy |-> preferLazy]
ConfigurableTransformer(quantifierConfig) ==
  [kind |-> "Configurable", quantifierConfig |-> quantifierConfig]

SpecialChars == {"\\", "^", "$", ".", "*", "+", "?", "(", ")", "[", "]", "{", "}", "|"}

escapeChar(value) ==
  IF value \in SpecialChars THEN <<"\\", value>>
  ELSE IF value = "\n" THEN <<"\\", "n">>
  ELSE IF value = "\r" THEN <<"\\", "r">>
  ELSE IF value = "\t" THEN <<"\\", "t">>
  ELSE <<value>>

transformCharacterSet(node) ==
  IF node.kind = "any" THEN <<".">>
  ELSE IF node.kind = "digit" THEN <<"\\", "d">>
  ELSE IF node.kind = "word" THEN <<"\\", "w">>
  ELSE IF node.kind = "space" THEN <<"\\", "s">>
  ELSE <<>>

\* what one element of a character class adds to result
transformClassElement(elem, result) ==
  IF elem.type = "Character"
  THEN IF elem.value = "]" \/ elem.value = "\\" THEN <<"\\", elem.value>>
       ELSE IF elem.value = "^" /\ result = <<"[">> THEN <<"\\", "^">>
       ELSE IF elem.value = "-" /\ Len(result) > 1 /\ result[Len(result)] # "["
       THEN <<"\\", "-">>
       ELSE <<elem.value>>
  ELSE IF elem.type = "CharacterClassRange" THEN <<elem.min.value, "-", elem.max.value>>
  ELSE IF elem.type = "CharacterSet" THEN transformCharacterSet(elem)
  ELSE <<>>

\* the loop of transformCharacterClass: result extended by the elements
RECURSIVE transformClassElements(_, _)
transformClassElements(elements, result) ==
  IF elements = <<>> THEN result
  ELSE transformClassElements(Tail(elements),
                              result \o transformClassElement(Head(elements), result))

transformCharacterClass(node) ==
  transformClassElements(node.elements, IF node.negate THEN <<"[", "^">> ELSE <<"[">>) \o <<"]">>

transformBackreference(node) ==
  IF ~node.byName THEN <<"\\", ToString(node.ref)>>
  ELSE <<"\\", "k", "<", node.ref, ">">>

\* MinMaxLimits with the clamp of an unbounded max forgotten
MinMaxLimits_UnboundedKept(node, t) ==
  [min |-> Max2(0, Min2(node.min, t.minTarget)),
   max |-> IF node.max = Infinity THEN Infinity ELSE Min2(node.max, t.maxTarget)]

\* MinMaxLimits with the min left as it was
MinMaxLimits_MinKept(node, t) ==
  [min |-> node.min,
   max |-> IF node.max = Infinity THEN t.maxTarget ELSE Min2(node.max, t.maxTarget)]

\* lines 340-351: the counts the global-target rewriter gives a quantifier
MinMaxLimits(node, t) ==
  [min |-> Max2(0, Min2(node.min, t.minTarget)),
   max |-> IF node.max = Infinity THEN t.maxTarget ELSE Min2(node.max, t.maxTarget)]

\* lines 739-741: the counts the per-assignment rewriter gives a quantifier
ConfiguredLimits(node, t) ==
  IF node \in DOMAIN t.quantifierConfig
  THEN [min |-> t.quantifierConfig[node].min, max |-> t.quantifierConfig[node].max]
  ELSE [min |-> node.min, max |-> node.max]

\* lines 353 and 743: the lazy marker
MinMaxLazy(node, t) == IF t.preferLazy \/ node.greedy = FALSE THEN <<"?">> ELSE <<>>
ConfiguredLazy(node) == IF node.greedy = FALSE THEN <<"?">> ELSE <<>>

\* buildQuantifier without the '?' shorthand
buildQuantifier_NoShorthand(min, max, lazy) ==
  IF min = 0 /\ max = Infinity THEN <<"*">> \o lazy
  ELSE IF min = 1 /\ max = Infinity THEN <<"+">> \o lazy
  ELSE IF min = max THEN <<"{", ToString(min), "}">>
  ELSE IF max = Infinity THEN <<"{", ToString(min), ",", "}">> \o lazy
  ELSE <<"{", ToString(min), ",", ToString(max), "}">> \o lazy

\* lines 355-368 and 745-758: the text of the quantifier after its element
buildQuantifier(min, max, lazy) ==
  IF min = 0 /\ max = 1 THEN <<"?">> \o lazy
  ELSE IF min = 0 /\ max = Infinity THEN <<"*">> \o lazy
  ELSE IF min = 1 /\ max = Infinity THEN <<"+">> \o lazy
  ELSE IF min = max THEN <<"{", ToString(min), "}">>
  ELSE IF max = Infinity THEN <<"{", ToString(min), ",", "}">> \o lazy
  ELSE <<"{", ToString(min), ",", ToString(max), "}">> \o lazy

QuantifierLimits(node, t) ==
  IF t.kind = "MinMax" THEN MinMaxLimits(node, t) ELSE ConfiguredLimits(node, t)
QuantifierLazy(node, t) ==
  IF t.kind = "MinMax" THEN MinMaxLazy(node, t) ELSE ConfiguredLazy(node)

\* the text written after the element of a quantifier
quantifierText(node, t) ==
  The({ buildQuantifier(lim.min, lim.max, QuantifierLazy(node, t))
        : lim \in {QuantifierLimits(node, t)} })

RECURSIVE transformElement(_, _)
RECURSIVE transformAlternatives(_, _)
RECURSIVE transformAlternative(_, _)

transformQuantifier(node, t) == transformElement(node.element, t) \o quantifierText(node, t)

transformCapturingGroup(node, t) ==
  (IF node.name # "" THEN <<"(", "?", "<", node.name, ">">> ELSE <<"(">>)
  \o transformAlternatives(node.alternatives, t) \o <<")">>

transformGroup(node, t) ==
  <<"(", "?", ":">> \o transformAlternatives(node.alternatives, t) \o <<")">>

transformAssertion(node, t) ==
  IF node.kind = "start" THEN <<"^">>
  ELSE IF node.kind = "end" THEN <<"$">>
  ELSE IF node.kind = "word" THEN <<"\\", "b">>
  ELSE IF node.kind = "lookahead"
  THEN (IF node.negate THEN <<"(", "?", "!">> ELSE <<"(", "?", "=">>)
       \o transformAlternatives(node.alternatives, t) \o <<")">>
  ELSE IF node.kind = "lookbehind"
  THEN (IF node.negate THEN <<"(", "?", "<", "!">> ELSE <<"(", "?", "<", "=">>)
       \o transformAlternatives(node.alternatives, t) \o <<")">>
  ELSE <<>>

transformElement(element, t) ==
  CASE element.type = "Character" -> escapeChar(element.value)
    [] element.type = "CharacterClass" -> transformCharacterClass(element)
    [] element.type = "CharacterSet" -> transformCharacterSet(element)
    [] element.type = "Quantifier" -> transformQuantifier(element, t)
    [] element.type = "CapturingGroup" -> transformCapturingGroup(element, t)
    [] element.type = "Group" -> transformGroup(element, t)
    [] element.type = "Assertion" -> transformAssertion(element, t)
    [] element.type = "Backreference" -> transformBackreference(element)
    [] OTHER -> <<>>

transformAlternative(alternative, t) ==
  Concat([i \in 1..Len(alternative.elements) |-> transformElement(alternative.elements[i], t)])

transformAlternatives(alternatives, t) ==
  IF Len(alternatives) = 0 THEN <<>>
  ELSE IF Len(alternatives) = 1 THEN transformAlternative(alternatives[1], t)
  ELSE Join([i \in 1..Len(alternatives) |-> transformAlternative(alternatives[i], t)], <<"|">>)

transformPattern(pattern, t) == transformAlternatives(pattern.alternatives, t)

\* MinMaxTransformer.transform: parses the source again, then rebuilds it
transform(pattern, flags, t) ==
  The({ IF parsed.threw THEN Thrown
        ELSE [threw |-> FALSE, text |-> transformPattern(parsed.pattern, t)]
        : parsed \in { parseRegex(StringOf(IF flags # <<>>
                                           THEN <<"/">> \o pattern \o <<"/">> \o flags
                                           ELSE pattern)) } })

\* every quantifier transformQuantifier is applied to, in the order of the
\* traversal of transformElement (lookarounds are entered)
RECURSIVE transformedQuantifiers(_)
transformedQuantifiers(node) ==
  CASE node.type = "Quantifier" -> <<node>> \o transformedQuantifiers(node.element)
    [] node.type \in {"Pattern", "Group", "CapturingGroup", "Assertion"} ->
         Concat([i \in 1..Len(node.alternatives) |-> transformedQuantifiers(node.alternatives[i])])
    [] node.type = "Alternative" ->
         Concat([i \in 1..Len(node.elements) |-> transformedQuantifiers(node.elements[i])])
    [] OTHER -> <<>>

\* the calls of transformQuantifier that transformPattern(pattern, t) makes:
\* the node, the counts it is given and the text written after its element
quantifierRewrites(pattern, t) ==
  The({ [i \in 1..Len(qs) |-> [node |-> qs[i],
                               limits |-> QuantifierLimits(qs[i], t),
                               text |-> quantifierText(qs[i], t)]]
        : qs \in {transformedQuantifiers(pattern)} })

(***************************************************************************)
(* 5. REGEX CANDIDATE GENERATOR                                            *)
(***************************************************************************)
\* RegexCandidateGenerator keeping the delimiters and flags in the source
RegexCandidateGenerator_Delimited(rx) ==
  The({ IF p.threw
        THEN [pattern |-> [type |-> "Unknown"], flags |-> <<>>, source |-> rx.source]
        ELSE [pattern |-> p.pattern, flags |-> p.flags,
              source |-> IF rx.isRegExp THEN <<"/">> \o rx.source \o <<"/">> \o rx.flags
                         ELSE rx.source]
        : p \in {parseRegex(rx)} })

\* the constructor: the parsed pattern, or the default version on a failure
RegexCandidateGenerator(rx) ==
  The({ IF p.threw
        THEN [pattern |-> [type |-> "Unknown"], flags |-> <<>>, source |-> rx.source]
        ELSE [pattern |-> p.pattern, flags |-> p.flags, source |-> p.source]
        : p \in {parseRegex(rx)} })

\* the quantifiers in visiting order; assertions are not entered
RECURSIVE findQuantifiers(_)
findQuantifiers(node) ==
  CASE node.type = "Quantifier" -> <<node>> \o findQuantifiers(node.element)
    [] node.type \in {"Pattern", "Group", "CapturingGroup"} ->
         Concat([i \in 1..Len(node.alternatives) |-> findQuantifiers(node.alternatives[i])])
    [] node.type = "Alternative" ->
         Concat([i \in 1..Len(node.elements) |-> findQuantifiers(node.elements[i])])
    [] OTHER -> <<>>

applyQuantifierConfiguration(pattern, config) ==
  transformPattern(pattern, ConfigurableTransformer(config))

isGrowable(q) == q.min < (IF q.max = Infinity THEN GrowableCap ELSE q.max) \/ q.min = 0

\* lines 533 and 585: a quantifier that keeps its counts
keptLimits(q) == [min |-> q.min, max |-> IF q.max = Infinity THEN q.min ELSE q.max]

\* [v0, v1, ...].filter((v, i, arr) => arr.indexOf(v) === i)
RECURSIVE removeDuplicates(_)
removeDuplicates(seq) ==
  IF seq = <<>> THEN <<>>
  ELSE The({ IF seq[Len(seq)] \in Range(front) THEN front ELSE Append(front, seq[Len(seq)])
             : front \in {removeDuplicates(SubSeq(seq, 1, Len(seq) - 1))} })

\* targetValuesOf without the filter that removes duplicates
targetValuesOf_DuplicatesKept(minLength, maxLength) ==
  IF maxLength - minLength = 0 THEN <<minLength>>
  ELSE IF maxLength - minLength <= SmallRange
  THEN <<minLength, (minLength + maxLength) \div 2, maxLength>>
  ELSE <<minLength,
         minLength + (maxLength - minLength) \div 4,
         minLength + (maxLength - minLength) \div 2,
         minLength + (3 * (maxLength - minLength)) \div 4,
         maxLength>>

targetValuesOf(minLength, maxLength) ==
  IF maxLength - minLength = 0 THEN <<minLength>>
  ELSE IF maxLength - minLength <= SmallRange
  THEN removeDuplicates(<<minLength, (minLength + maxLength) \div 2, maxLength>>)
  ELSE removeDuplicates(<<minLength,
                          minLength + (maxLength - minLength) \div 4,
                          minLength + (maxLength - minLength) \div 2,
                          minLength + (3 * (maxLength - minLength)) \div 4,
                          maxLength>>)

\* estimator.estimate(q.element).min || 1
elemLengthOf(q) == The({ IF m = 0 THEN 1 ELSE m : m \in {estimate(q.element).min} })

\* Math.max(q.min, Math.min(repsNeeded, q.max === Infinity ? length : q.max))
finalValueOf(q, repsNeeded, length) ==
  The({ [min |-> v, max |-> v]
        : v \in {Max2(q.min, Min2(repsNeeded, IF q.max = Infinity THEN length ELSE q.max))} })

\* lines 569-587: the assignment built for one target length
targetConfiguration(quantifiers, growableQuantifiers, targetLength) ==
  [q \in Range(quantifiers) |->
     IF q \in Range(growableQuantifiers)
     THEN finalValueOf(q, (targetLength \div Len(growableQuantifiers)) \div elemLengthOf(q),
                       targetLength)
     ELSE keptLimits(q)]

\* lines 606-617: the forced assignment
fallbackConfiguration(quantifiers, minLength) ==
  [q \in Range(quantifiers) |-> finalValueOf(q, minLength \div elemLengthOf(q), minLength)]

\* configurationAccepted with the upper end of the range test dropped
configurationAccepted_NoUpperBound(pattern, config, minLength, maxLength) ==
  The({ IF testParsed.threw THEN FALSE
        ELSE estimate(testParsed.pattern).min >= minLength
        : testParsed \in {parseRegex(StringOf(applyQuantifierConfiguration(pattern, config)))} })

\* lines 589-602: does the assignment land inside the requested range
configurationAccepted(pattern, config, minLength, maxLength) ==
  The({ IF testParsed.threw THEN FALSE
        ELSE The({ testEstimate.min >= minLength /\ testEstimate.min <= maxLength
                   : testEstimate \in {estimate(testParsed.pattern)} })
        : testParsed \in {parseRegex(StringOf(applyQuantifierConfiguration(pattern, config)))} })

RECURSIVE targetLoop(_, _, _, _, _, _, _, _)

\* targetLoop leaving the loop at a text that does not parse
targetLoop_StoppedByFailure(pattern, quantifiers, growableQuantifiers, targets, minLength, maxLength, count, acc) ==
  IF targets = <<>> \/ Len(acc.configurations) >= count THEN acc
  ELSE The({ IF parseRegex(StringOf(applyQuantifierConfiguration(pattern, config))).threw
             THEN [configurations |-> acc.configurations, built |-> Append(acc.built, config)]
             ELSE targetLoop(pattern, quantifiers, growableQuantifiers, Tail(targets),
                             minLength, maxLength, count,
                             [configurations |->
                                IF configurationAccepted(pattern, config, minLength, maxLength)
                                THEN Append(acc.configurations, config) ELSE acc.configurations,
                              built |-> Append(acc.built, config)])
             : config \in {targetConfiguration(quantifiers, growableQuantifiers, Head(targets))} })

\* the loop of lines 566-603 over the remaining target lengths; configurations
\* are the assignments pushed so far, built all those constructed so far
targetLoop(pattern, quantifiers, growableQuantifiers, targets, minLength, maxLength, count, acc) ==
  IF targets = <<>> \/ Len(acc.configurations) >= count THEN acc
  ELSE The({ targetLoop(pattern, quantifiers, growableQuantifiers, Tail(targets),
                        minLength, maxLength, count,
                        [configurations |->
                           IF configurationAccepted(pattern, config, minLength, maxLength)
                           THEN Append(acc.configurations, config) ELSE acc.configurations,
                         built |-> Append(acc.built, config)])
             : config \in {targetConfiguration(quantifiers, growableQuantifiers, Head(targets))} })

slice(seq, count) == SubSeq(seq, 1, Min2(count, Len(seq)))

\* configurations: the array returned; built: every assignment constructed, in
\* order; inRange: the returned ones passed the range test of line 596;
\* targets: the target lengths of lines 543-564 (none when no quantifier can
\* grow)
generateQuantifierConfigurations(pattern, quantifiers, minLength, maxLength, count) ==
  The({ IF Len(growableQuantifiers) = 0
        THEN The({ [configurations |-> <<config>>, built |-> <<config>>, inRange |-> FALSE,
                    targets |-> <<>>]
                   : config \in {[q \in Range(quantifiers) |-> keptLimits(q)]} })
        ELSE The({ The({ IF Len(loop.configurations) = 0
                         THEN The({ [configurations |-> slice(<<config>>, count),
                                     built |-> Append(loop.built, config), inRange |-> FALSE,
                                     targets |-> targetValues]
                                    : config \in {fallbackConfiguration(quantifiers, minLength)} })
                         ELSE [configurations |-> slice(loop.configurations, count),
                               built |-> loop.built, inRange |-> TRUE, targets |-> targetValues]
                         : loop \in {targetLoop(pattern, quantifiers, growableQuantifiers,
                                                targetValues, minLength, maxLength, count,
                                                [configurations |-> <<>>, built |-> <<>>])} })
                   : targetValues \in {targetValuesOf(minLength, maxLength)} })
        : growableQuantifiers \in {SelectSeq(quantifiers, isGrowable)} })

\* lines 467-484: one candidate per assignment whose text parses
RECURSIVE candidatesOf(_, _)
candidatesOf(pattern, configurations) ==
  IF configurations = <<>> THEN <<>>
  ELSE The({ The({ IF parsed.threw THEN <<>>
                   ELSE The({ <<[regex |-> transformedRegex,
                                 minLength |-> e.min, maxLength |-> e.max]>>
                              : e \in {estimate(parsed.pattern)} })
                   : parsed \in {parseRegex(StringOf(transformedRegex))} })
             : transformedRegex \in {applyQuantifierConfiguration(pattern, Head(configurations))} })
       \o candidatesOf(pattern, Tail(configurations))

\* the generator did not run
NotGenerated ==
  [ran |-> FALSE, candidates |-> <<>>, quantifiers |-> <<>>, configurations |-> <<>>,
   built |-> <<>>, inRange |-> FALSE, rewrites |-> <<>>, targets |-> <<>>,
   minLength |-> 0, maxLength |-> 0, count |-> 0]

\* new RegexCandidateGenerator(rx).generate(minLength, maxLength, count):
\* candidates is the array returned, the other fields are what it computed on
\* the way (rewrites[k]: the quantifier rewrites of the k-th built assignment)
generate(rx, minLength, maxLength, count) ==
  The({ The({ IF Len(quantifiers) = 0
              THEN The({ [ran |-> TRUE,
                          candidates |-> <<[regex |-> this.source,
                                            minLength |-> e.min, maxLength |-> e.max]>>,
                          quantifiers |-> quantifiers, configurations |-> <<>>,
                          built |-> <<>>, inRange |-> FALSE, rewrites |-> <<>>,
                          targets |-> <<>>,
                          minLength |-> minLength, maxLength |-> maxLength, count |-> count]
                         : e \in {estimate(this.pattern)} })
              ELSE The({ [ran |-> TRUE,
                          candidates |-> slice(candidatesOf(this.pattern, c.configurations), count),
                          quantifiers |-> quantifiers, configurations |-> c.configurations,
                          built |-> c.built, inRange |-> c.inRange,
                          rewrites |-> [k \in 1..Len(c.built) |->
                                          quantifierRewrites(this.pattern,
                                                             ConfigurableTransformer(c.built[k]))],
                          targets |-> c.targets,
                          minLength |-> minLength, maxLength |-> maxLength, count |-> count]
                         : c \in {generateQuantifierConfigurations(this.pattern, quantifiers,
                                                                   minLength, maxLength, count)} })
              : quantifiers \in {findQuantifiers(this.pattern)} })
        : this \in {RegexCandidateGenerator(rx)} })

(***************************************************************************)
(* 6. PUBLIC API                                                           *)
(***************************************************************************)
\* regex.toString()
toString(rx) ==
  IF rx.isRegExp THEN <<"/">> \o rx.source \o <<"/">> \o rx.flags ELSE rx.source

\* options.candidateCount || 5
candidateCountOf(options) ==
  IF options.candidateCount = 0 THEN DefaultCandidateCount ELSE options.candidateCount

Undefined == [defined |-> FALSE, list |-> <<>>]
Defined(list) == [defined |-> TRUE, list |-> list]

\* options.generateCandidates ? new RegexCandidateGenerator(regex).generate(..) : undefined
candidatesOption(rx, minLength, maxLength, options) ==
  IF options.generateCandidates
  THEN generate(rx, minLength, maxLength, candidateCountOf(options))
  ELSE NotGenerated

\* lines 862-870: the bound of the transformed pattern, or the requested
\* range when the transformed text does not parse
finalEstimateOf(reparsed, minLength, maxLength) ==
  IF reparsed.threw THEN [min |-> minLength, max |-> maxLength]
  ELSE estimate(reparsed.pattern)

\* line 885: isExact
isExactOf(finalEstimate, minLength, maxLength) ==
  finalEstimate.min >= minLength
  /\ (finalEstimate.max = NULL \/ finalEstimate.max <= maxLength)

\* isInfeasible off by one
isInfeasible_OffByOne(currentEstimate, maxLength) == currentEstimate.min > maxLength + 1

\* line 833: the feasibility check
isInfeasible(currentEstimate, maxLength) == currentEstimate.min > maxLength

\* lines 833-848: the branch of a structural minimum above maxLength
cannotMeetMaxLength(rx, parsed, currentEstimate, options) ==
  The({ [result |-> [threw |-> FALSE,
                     transformed |-> toString(rx),
                     actualMinLength |-> currentEstimate.min,
                     actualMaxLength |-> currentEstimate.max,
                     isExact |-> FALSE,
                     warning |-> "Cannot meet maxLength",
                     candidates |-> IF g.ran THEN Defined(g.candidates) ELSE Undefined],
         parsed |-> parsed, currentEstimate |-> currentEstimate, feasible |-> FALSE,
         rewrites |-> <<>>, reparsed |-> Thrown, generator |-> g]
        : g \in {candidatesOption(rx, currentEstimate.min,
                                  currentEstimate.min + WidenedWindow, options)} })

\* lines 861-891: the result built from the transformed pattern
transformedResult(rx, parsed, currentEstimate, transformer, transformedPattern, reparsed, minLength, maxLength, options) ==
  The({ [result |-> [threw |-> FALSE,
                     transformed |-> transformedPattern,
                     actualMinLength |-> finalEstimate.min,
                     actualMaxLength |-> finalEstimate.max,
                     isExact |-> isExactOf(finalEstimate, minLength, maxLength),
                     warning |-> IF finalEstimate.min > maxLength
                                 THEN "Constraints are too strict" ELSE "undefined",
                     candidates |-> IF g.ran THEN Defined(g.candidates) ELSE Undefined],
         parsed |-> parsed, currentEstimate |-> currentEstimate, feasible |-> TRUE,
         rewrites |-> quantifierRewrites(parsed.pattern, transformer),
         reparsed |-> reparsed, generator |-> g]
        : finalEstimate \in {finalEstimateOf(reparsed, minLength, maxLength)},
          g \in {candidatesOption(rx, minLength, maxLength, options)} })

\* lines 850-860: the transformer of the call applied to the source
transformWithin(rx, parsed, currentEstimate, minLength, maxLength, options) ==
  The({ The({ IF transformed.threw
              THEN [result |-> Thrown, parsed |-> parsed, currentEstimate |-> currentEstimate]
              ELSE transformedResult(rx, parsed, currentEstimate, transformer, transformed.text,
                     parseRegex(StringOf(<<"/">> \o transformed.text \o <<"/">>
                                         \o (IF rx.isRegExp THEN rx.flags ELSE <<>>))),
                     minLength, maxLength, options)
              : transformed \in {transform(rx.source, IF rx.isRegExp THEN rx.flags ELSE <<>>,
                                           transformer)} })
        : transformer \in {MinMaxTransformer(minLength, maxLength, options.preferLazy)} })

\* result is the value returned (threw = TRUE: the call throws); the other
\* fields are the values the call computed on the way: parsed and
\* currentEstimate, feasible (the transformer ran), the quantifier rewrites it
\* made, the parse of the transformed text and the run of the generator
regexToStringMinMax(rx, minLength, maxLength, options) ==
  The({ IF parsed.threw THEN [result |-> Thrown, parsed |-> parsed]
        ELSE The({ IF isInfeasible(currentEstimate, maxLength)
                   THEN cannotMeetMaxLength(rx, parsed, currentEstimate, options)
                   ELSE transformWithin(rx, parsed, currentEstimate, minLength, maxLength, options)
                   : currentEstimate \in {estimate(parsed.pattern)} })
        : parsed \in {parseRegex(rx)} })

\* options.flags || parsed.flags.raw || ""
flagsOption(parsed, options) == IF options.flags # <<>> THEN options.flags ELSE parsed.flags

\* regexToString(parsed, options): result is the string returned, transformed
\* the text the transformer wrote
regexToString(parsed, options) ==
  The({ IF transformed.threw THEN [result |-> Thrown, parsed |-> parsed]
        ELSE [result |-> [threw |-> FALSE,
                          text |-> IF options.includeDelimiters
                                   THEN <<"/">> \o transformed.text \o <<"/">>
                                        \o (IF options.includeFlags
                                            THEN flagsOption(parsed, options) ELSE <<>>)
                                   ELSE transformed.text],
              parsed |-> parsed, transformed |-> transformed.text]
        : transformed \in {transform(parsed.source, parsed.flags,
                                     MinMaxTransformer(0, Infinity, FALSE))} })

\* estimateMinLength / estimateMaxLength: the bound of the parsed pattern, or
\* the error of parseRegex
estimateMinLength(rx) ==
  The({ IF parsed.threw THEN [result |-> Thrown, parsed |-> parsed]
        ELSE [result |-> [threw |-> FALSE, value |-> estimate(parsed.pattern).min],
              parsed |-> parsed]
        : parsed \in {parseRegex(rx)} })

estimateMaxLength(rx) ==
  The({ IF parsed.threw THEN [result |-> Thrown, parsed |-> parsed]
        ELSE [result |-> [threw |-> FALSE, value |-> estimate(parsed.pattern).max],
              parsed |-> parsed]
        : parsed \in {parseRegex(rx)} })

(***************************************************************************)
(* 7. ANALYSIS UTILITIES                                                   *)
(***************************************************************************)
\* childNodes without the descent into a lookaround
childNodes_LookaroundsSkipped(node) ==
  CASE node.type \in {"Pattern", "Group", "CapturingGroup"} -> node.alternatives
    [] node.type = "Alternative" -> node.elements
    [] node.type = "Quantifier" -> <<node.element>>
    [] node.type = "CharacterClass" -> node.elements
    [] OTHER -> <<>>

\* the child nodes visitRegExpAST descends into
childNodes(node) ==
  CASE node.type \in {"Pattern", "Group", "CapturingGroup", "Assertion"} -> node.alternatives
    [] node.type = "Alternative" -> node.elements
    [] node.type = "Quantifier" -> <<node.element>>
    [] node.type = "CharacterClass" -> node.elements
    [] OTHER -> <<>>

\* visitRegExpAST: the nodes the handlers are entered on, in visiting order
RECURSIVE visitRegExpAST(_)
visitRegExpAST(node) ==
  The({ <<node>> \o Concat([k \in 1..Len(children) |-> visitRegExpAST(children[k])])
        : children \in {childNodes(node)} })

\* the child nodes LengthEstimatorVisitor computes a bound of: an assertion
\* and a character class are not entered
estimatedChildren(node) ==
  CASE node.type \in {"Pattern", "Group", "CapturingGroup"} -> node.alternatives
    [] node.type = "Alternative" -> node.elements
    [] node.type = "Quantifier" -> <<node.element>>
    [] OTHER -> <<>>

\* every bound LengthEstimatorVisitor computes on the way to the bound of
\* node: the node (or the element list of an alternative) and its bound
RECURSIVE estimatorVisits(_)
estimatorVisits(node) ==
  The({ <<[node |-> node, bound |-> visitNode(node)]>>
        \o Concat([k \in 1..Len(children) |-> estimatorVisits(children[k])])
        : children \in {estimatedChildren(node)} })

isLookaround(node) == node.type = "Assertion" /\ node.kind \in {"lookahead", "lookbehind"}
isNamedGroup(node) == node.type = "CapturingGroup" /\ node.name # ""

\* collectedFacts testing the kind of an assertion for a lookahead only
collectedFacts_LookaheadOnly(nodes) ==
  [hasBackreferences |-> \E k \in 1..Len(nodes) : nodes[k].type = "Backreference",
   hasLookarounds |-> \E k \in 1..Len(nodes) :
                        nodes[k].type = "Assertion" /\ nodes[k].kind = "lookahead",
   hasNamedGroups |-> \E k \in 1..Len(nodes) : isNamedGroup(nodes[k]),
   captureGroupCount |-> Cardinality({k \in 1..Len(nodes) : nodes[k].type = "CapturingGroup"})]

\* lines 915-931: the facts the handlers collect
collectedFacts(nodes) ==
  [hasBackreferences |-> \E k \in 1..Len(nodes) : nodes[k].type = "Backreference",
   hasLookarounds |-> \E k \in 1..Len(nodes) : isLookaround(nodes[k]),
   hasNamedGroups |-> \E k \in 1..Len(nodes) : isNamedGroup(nodes[k]),
   captureGroupCount |-> Cardinality({k \in 1..Len(nodes) : nodes[k].type = "CapturingGroup"})]

\* result is the value returned; visits are the bounds the estimator
\* computed on the way
analyzeRegex(rx) ==
  The({ IF parsed.threw THEN [result |-> Thrown, parsed |-> parsed]
        ELSE The({ [result |-> [threw |-> FALSE,
                                hasBackreferences |-> facts.hasBackreferences,
                                hasLookarounds |-> facts.hasLookarounds,
                                hasNamedGroups |-> facts.hasNamedGroups,
                                captureGroupCount |-> facts.captureGroupCount,
                                minLength |-> visits[1].bound.min,
                                maxLength |-> visits[1].bound.max,
                                flags |-> parsed.flags],
                     parsed |-> parsed, visits |-> visits]
                   : facts \in {collectedFacts(visitRegExpAST(parsed.pattern))},
                     visits \in {estimatorVisits(parsed.pattern)} })
        : parsed \in {parseRegex(rx)} })

(***************************************************************************)
(* The patterns the caller passes.                                         *)
(***************************************************************************)
Atoms ==
  { <<"a">>, <<"\\", "/">>, <<".">>, <<"\\", "d">>, <<"\\", "D">>,
    <<"[", "a", "-", "b", "]">>, <<"[", "^", "a", "]">>, <<"[", "\\", "D", "]">> }

QuantifierTexts ==
  { <<>>, <<"?">>, <<"*">>, <<"+">>, <<"{", "0", "}">>, <<"{", "2", "}">>,
    <<"{", "1", ",", "2", "}">>, <<"{", "2", ",", "}">>, <<"{", "3", ",", "4", "}">>,
    <<"?", "?">>, <<"*", "?">>, <<"+", "?">>, <<"{", "2", "}", "?">>,
    <<"{", "1", ",", "2", "}", "?">>, <<"{", "2", ",", "}", "?">> }

FewQuantifierTexts == { <<>>, <<"?">>, <<"+">>, <<"{", "2", "}">>, <<"{", "1", ",", "2", "}", "?">> }

SingleTerms == { x \o q : x \in Atoms, q \in QuantifierTexts }

Sequences2 ==
  { <<"a">> \o q1 \o x \o q2 : q1 \in FewQuantifierTexts, q2 \in FewQuantifierTexts,
                               x \in { <<"a">>, <<"\\", "d">> } }

Anchored ==
  { <<"^">> \o x \o q \o <<"$">> :
      x \in { <<"a">>, <<"\\", "d">>, <<"[", "a", "-", "b", "]">> }, q \in FewQuantifierTexts }
  \cup { <<"^", "$">>, <<"\\", "b", "a", "+", "\\", "B">>, <<"\\", "B", "a">> }

Grouped ==
  { <<"(">> \o <<"a">> \o q1 \o <<")">> \o q2 : q1 \in FewQuantifierTexts, q2 \in FewQuantifierTexts }
  \cup { <<"(", "?", ":", "a">> \o q1 \o <<"|", "a", "a", ")">> \o q2 :
           q1 \in FewQuantifierTexts, q2 \in FewQuantifierTexts }
  \cup { <<"(", "?", "<", "x", ">", "a">> \o q \o <<")", "\\", "k", "<", "x", ">">> : q \in FewQuantifierTexts }
  \cup { <<"(", "a">> \o q \o <<")", "\\", "1">> : q \in FewQuantifierTexts }

Alternations ==
  { <<"a">> \o q1 \o <<"|", "a", "a">> \o q2 : q1 \in FewQuantifierTexts, q2 \in FewQuantifierTexts }

Lookarounds ==
  { <<"(", "?", "=", "a">> \o q1 \o <<")", "a">> \o q2 : q1 \in FewQuantifierTexts, q2 \in FewQuantifierTexts }
  \cup { <<"(", "?", "!", "a">> \o q \o <<")", "a">> : q \in FewQuantifierTexts }
  \cup { <<"(", "?", "<", "=", "a", ")", "a">> \o q : q \in FewQuantifierTexts }
  \cup { <<"(", "?", "<", "!", "a">> \o q \o <<")", "a">> : q \in FewQuantifierTexts }

\* what follows (a) in the patterns with a backreference in each context
BackreferenceContexts ==
  { <<"(", "?", ":", "\\", "1", ")">>, <<"(", "?", ":", "\\", "1", "|", "a", ")">>,
    <<"(", "?", ":", "a", "|", "\\", "1", ")">>, <<"\\", "1", "+">>, <<"\\", "1", "{", "0", "}">>,
    <<"\\", "1", "{", "2", "}">>, <<"|", "\\", "1">>, <<"(", "?", "=", "\\", "1", ")">>,
    <<"(", "?", "!", "\\", "1", ")", "a">>, <<"(", "?", "<", "=", "\\", "1", ")", "a", "+">> }

\* capturing groups inside one another, inside a lookahead and in branches
NestedGroups ==
  { <<"(", "(", "a", ")", ")">>, <<"(", "?", "=", "(", "a", ")", ")", "(", "a", ")">>,
    <<"(", "?", "<", "x", ">", "(", "a", ")", ")", "\\", "k", "<", "x", ">">>,
    <<"(", "?", ":", "(", "a", ")", "|", "(", "a", ")", ")", "+">> }

\* an unbounded repetition whose min reaches the cap of the growable test
CappedRepetitions ==
  { <<"a", "{", "1000", ",", "}">>, <<"a", "{", "1000", ",", "}", "b", "*">> }

RegExpSources ==
  SingleTerms \cup Sequences2 \cup Anchored \cup Grouped \cup Alternations \cup Lookarounds
  \cup NestedGroups \cup CappedRepetitions

\* RegExp objects, and pattern strings with and without delimiters
Inputs ==
  { RegExpOf(src, <<>>) : src \in RegExpSources }
  \cup { RegExpOf(<<"a", "+">>, <<"i">>), RegExpOf(<<"^", "a", "+", "$">>, <<"g", "i">>),
         RegExpOf(<<"\\", "/", "a", "\\", "/">>, <<>>) }
  \cup { StringOf(<<"a", "+">>), StringOf(<<"^", "a", "{", "2", "}", "$">>),
         StringOf(<<"/", "a", "+", "/", "g">>), StringOf(<<"/", "^", "a", "$", "/">>),
         StringOf(<<"/", "a">>), StringOf(<<"(", "a">>), StringOf(<<"a", "{", "2", ",", "1", "}">>),
         StringOf(<<"+", "a">>), StringOf(<<"\\">>), StringOf(<<"a", "\\">>),
         StringOf(<<"a", "/", "b">>), StringOf(<<"[", "a">>),
         StringOf(<<"/", "a", "/", "g", "g">>) }
  \cup { RegExpOf(<<"(", "a", ")">> \o t, <<>>) : t \in BackreferenceContexts }
  \cup { RegExpOf(<<"\\", "/", "|", "a", "a">>, <<>>), RegExpOf(<<"a", "a", "|", "\\", "/">>, <<>>),
         RegExpOf(<<"(", "?", ":", "\\", "/", "|", "a", "a", ")">>, <<>>) }

OptionSets ==
  [preferLazy : BOOLEAN, generateCandidates : {FALSE}, candidateCount : {0}]
  \cup [preferLazy : BOOLEAN, generateCandidates : {TRUE}, candidateCount : 0..MaxCandidateCount]

\* RegexStringOptions
StringOptionSets == [includeDelimiters : BOOLEAN, includeFlags : BOOLEAN, flags : {<<>>, <<"g">>}]

(***************************************************************************)
(* 8. THE SCHEMA WALKER: createMockGenerator, handleSchema and the         *)
(* handlers of the schema types.  A value drawn by faker is a choice, so a *)
(* handler and handleSchema denote the set of their possible outcomes.     *)
(***************************************************************************)
\* JavaScript values
VOID == [t |-> "void"]
undefined == [t |-> "undefined"]
NumberOf(n) == [t |-> "number", num |-> n, half |-> FALSE]
\* a number strictly between n and n + 1
Between(n) == [t |-> "number", num |-> n, half |-> TRUE]
\* faker.lorem.word()
Word == [t |-> "string", str |-> "word"]
\* fields: the own keys in insertion order, each with its value
ObjectOf(fields) == [t |-> "object", fields |-> fields]

Keys(object) == {object.fields[i].key : i \in 1..Len(object.fields)}

\* valibot schemas and pipe items, with the fields the walker reads
vNumber == [type |-> "number"]
vLiteral(value) == [type |-> "literal", literal |-> value]
vOptional(wrapped) == [type |-> "optional", wrapped |-> wrapped]
vNonNullable(wrapped) == [type |-> "non_nullable", wrapped |-> wrapped]
vObject(entries) == [type |-> "object", entries |-> entries]
vPipe(root, items) == [type |-> root.type, pipe |-> <<root>> \o items]
minValue(n) == [type |-> "min_value", requirement |-> n]
maxValue(n) == [type |-> "max_value", requirement |-> n]
multipleOf(n) == [type |-> "multiple_of", requirement |-> n]
integer == [type |-> "integer"]
\* fake(generator): returns are the values the function may return
fake(returns, throws) == [type |-> "metadata", generator |-> [returns |-> returns, throws |-> throws]]

\* a schema that is undefined
NoSchema == [type |-> "undefined"]

HasPipe(schema) == "pipe" \in DOMAIN schema

\* schema.pipe?.find(pipe => pipe.type === type): the matching items in order
pipeItems(schema, type) ==
  IF HasPipe(schema) THEN SelectSeq(schema.pipe, LAMBDA item : item.type = type) ELSE <<>>

\* schema.pipe?.find(pipe => pipe.type === type)?.requirement ?? default
requirementOf(schema, type, default) ==
  The({ IF found = <<>> THEN default ELSE found[1].requirement
        : found \in {pipeItems(schema, type)} })

\* v.safeParse(schema, value).success for the modelled schemas; the output of
\* a successful parse is the value itself (no schema transforms or defaults)
RECURSIVE safeParse(_, _)
actionHolds(item, value) ==
  CASE item.type = "min_value" -> value.t = "number" /\ value.num >= item.requirement
    [] item.type = "max_value" ->
         /\ value.t = "number"
         /\ IF value.half THEN value.num < item.requirement ELSE value.num <= item.requirement
    [] item.type = "integer" -> value.t = "number" /\ ~value.half
    [] item.type = "multiple_of" ->
         value.t = "number" /\ ~value.half /\ value.num % item.requirement = 0
    [] OTHER -> TRUE

safeParse(schema, value) ==
  IF HasPipe(schema)
  THEN /\ safeParse(schema.pipe[1], value)
       /\ \A i \in 2..Len(schema.pipe) : actionHolds(schema.pipe[i], value)
  ELSE CASE schema.type = "number" -> value.t = "number"
         [] schema.type = "literal" -> value = schema.literal
         [] schema.type = "never" -> FALSE
         [] schema.type = "optional" -> value = undefined \/ safeParse(schema.wrapped, value)
         [] schema.type = "non_nullable" -> value.t # "null" /\ safeParse(schema.wrapped, value)
         [] schema.type = "union" ->
              \E i \in 1..Len(schema.options) : safeParse(schema.options[i], value)
         [] schema.type = "object" ->
              /\ value.t = "object"
              /\ \A i \in 1..Len(schema.entries) :
                   IF schema.entries[i].key \in Keys(value)
                   THEN \A f \in Range(value.fields) :
                          f.key = schema.entries[i].key =>
                            safeParse(schema.entries[i].schema, f.value)
                   ELSE schema.entries[i].schema.type = "optional"
         [] OTHER -> FALSE

\* lines 871-886: the innermost piped schema of the same type, and the pipe
\* items collected on the way, outer items last
RECURSIVE collectPipes(_, _)
collectPipes(schema, allPipeItems) ==
  IF ~HasPipe(schema) THEN [schema |-> schema, allPipeItems |-> allPipeItems]
  ELSE IF HasPipe(schema.pipe[1]) /\ schema.pipe[1].type = schema.type
  THEN collectPipes(schema.pipe[1], Tail(schema.pipe) \o allPipeItems)
  ELSE [schema |-> schema, allPipeItems |-> schema.pipe \o allPipeItems]

\* lines 871-891: the schema used for generation
unwrapped(originalSchema) ==
  The({ IF Len(c.allPipeItems) > 0 /\ c.schema # originalSchema
        THEN [type |-> c.schema.type, pipe |-> c.allPipeItems]
        ELSE c.schema
        : c \in {collectPipes(originalSchema, <<>>)} })

\* the generator of the last fake(...) item of the pipe, if any
getFakeGenerator(schema) ==
  The({ IF found = <<>> THEN [defined |-> FALSE]
        ELSE [defined |-> TRUE, generator |-> found[Len(found)].generator]
        : found \in {pipeItems(schema, "metadata")} })

\* what a handler or a custom generator hands to handleSchema: a value, or an
\* exception; absent are the keys of the value whose optional handler
\* answered VOID
handlerValue(value, absent) == [threw |-> FALSE, value |-> value, absent |-> absent, message |-> ""]
handlerThrew(message) == [threw |-> TRUE, value |-> undefined, absent |-> {}, message |-> message]

\* lines 921-932 (and 899-909): the ways a loop of at most maxAttempts
\* attempts can end when each attempt draws one of results
retryLoop(originalSchema, results, maxAttempts) ==
  LET coerced(r) == IF r.value = VOID THEN undefined ELSE r.value
      good == {r \in results : ~r.threw /\ safeParse(originalSchema, coerced(r))}
      bad == {r \in results : ~r.threw /\ ~safeParse(originalSchema, coerced(r))}
      reached == {k \in 1..maxAttempts : k = 1 \/ bad # {}}
  IN { [end |-> "returned", value |-> coerced(r), void |-> r.value = VOID,
        absent |-> r.absent, attempts |-> k, message |-> ""] : r \in good, k \in reached }
     \cup { [end |-> "raised", value |-> undefined, void |-> FALSE,
             absent |-> {}, attempts |-> k, message |-> r.message]
            : r \in {x \in results : x.threw}, k \in reached }
     \cup (IF maxAttempts <= 0 \/ bad # {}
           THEN {[end |-> "exhausted", value |-> undefined, void |-> FALSE, absent |-> {},
                  attempts |-> Max2(maxAttempts, 0), message |-> "Max attempts reached"]}
           ELSE {})

\* the keys of schemaHandlers that the modelled schemas use
HandledTypes == {"union", "optional", "object", "literal", "number", "never"}

\* what the caller of handleSchema sees of an outcome
nested(outcomes) ==
  {[threw |-> o.threw, value |-> o.value, absent |-> o.absent, void |-> o.void,
    message |-> o.message] : o \in outcomes}

RECURSIVE handleSchema(_, _)

\* schemaHandlers.number
numberHandler(schema) ==
  LET minValue_ == requirementOf(schema, "min_value", -DefaultNumberRange)
      maxValue_ == requirementOf(schema, "max_value", DefaultNumberRange)
      min == requirementOf(schema, "min", minValue_)
      max == requirementOf(schema, "max", maxValue_)
  IN IF pipeItems(schema, "integer") # <<>>
     THEN {NumberOf(n) : n \in min..max}
     ELSE {NumberOf(n) : n \in min..max} \cup {Between(n) : n \in min..(max - 1)}

\* schemaHandlers.object: the loop over schema.entries
RECURSIVE objectHandler(_, _)
objectHandler(entries, options) ==
  IF entries = <<>> THEN {handlerValue(ObjectOf(<<>>), {})}
  ELSE { IF first.threw THEN handlerThrew(first.message)
         ELSE IF rest.threw THEN rest
         ELSE handlerValue(
                ObjectOf((IF first.value # VOID
                          THEN <<[key |-> Head(entries).key, value |-> first.value]>>
                          ELSE <<>>) \o rest.value.fields),
                (IF first.void THEN {Head(entries).key} ELSE {}) \cup rest.absent)
         : first \in nested(handleSchema(Head(entries).schema, options)),
           rest \in objectHandler(Tail(entries), options) }

\* a handler that returns handleSchema(schema, ...)
delegated(schema, options) ==
  { IF o.threw THEN handlerThrew(o.message) ELSE handlerValue(o.value, o.absent)
    : o \in nested(handleSchema(schema, options)) }

\* schemaHandlers[schema.type](schema, faker, context, options)
schemaHandlers(schema, options) ==
  CASE schema.type = "union" ->
         UNION {delegated(schema.options[i], options) : i \in 1..Len(schema.options)}
    [] schema.type = "optional" ->
         {handlerValue(VOID, {})} \cup delegated(schema.wrapped, options)
    [] schema.type = "object" -> objectHandler(schema.entries, options)
    [] schema.type = "literal" -> {handlerValue(schema.literal, {})}
    [] schema.type = "number" -> {handlerValue(value, {}) : value \in numberHandler(schema)}
    [] schema.type = "never" -> {handlerThrew("Never schema cannot be generated")}

\* the outcome of handleSchema after customAttempts attempts of the custom
\* generator and the loop (or the missing handler) that ended it
outcomeOf(customAttempts, attempts, loop) ==
  [threw |-> loop.end \in {"raised", "exhausted"}, value |-> loop.value, void |-> loop.void,
   absent |-> loop.absent, validated |-> loop.end = "returned",
   customAttempts |-> customAttempts, attempts |-> attempts, message |-> loop.message]

\* return faker.lorem.word() of lines 862 and 939
unvalidatedWord ==
  [end |-> "word", value |-> Word, void |-> FALSE, absent |-> {}, attempts |-> 0,
   message |-> ""]

\* handleSchema(schema, faker, context, options): the set of its outcomes
handleSchema(originalSchema, options) ==
  IF originalSchema = NoSchema THEN {outcomeOf(0, 0, unvalidatedWord)}
  ELSE LET schema == unwrapped(originalSchema)
           customGenerator == getFakeGenerator(schema)
           custom == IF customGenerator.defined
                     THEN retryLoop(originalSchema,
                                    {handlerValue(value, {})
                                     : value \in customGenerator.generator.returns}
                                    \cup (IF customGenerator.generator.throws
                                          THEN {handlerThrew("custom generator")} ELSE {}),
                                    options.maxAttempts)
                     ELSE {}
           fellThrough == IF customGenerator.defined
                          THEN {c.attempts : c \in {x \in custom : x.end # "returned"}}
                          ELSE {0}
           default == IF schema.type \in HandledTypes
                      THEN retryLoop(originalSchema, schemaHandlers(schema, options),
                                     options.maxAttempts)
                      ELSE {unvalidatedWord}
       IN {outcomeOf(c.attempts, 0, c) : c \in {x \in custom : x.end = "returned"}}
          \cup {outcomeOf(customAttempts, d.attempts, d)
                : customAttempts \in fellThrough, d \in default}

\* lines 954-961: the options createMockGenerator resolves
resolvedOptions(maxAttempts) ==
  [maxAttempts |-> IF maxAttempts = NULL THEN DefaultMaxAttempts ELSE maxAttempts]

\* generateMany(count): count calls of generate(), the first exception ends it
RECURSIVE generateMany(_, _, _)
generateMany(schema, options, count) ==
  IF count = 0 THEN {[threw |-> FALSE, values |-> <<>>]}
  ELSE { IF first.threw \/ rest.threw THEN [threw |-> TRUE, values |-> <<>>]
         ELSE [threw |-> FALSE, values |-> <<first.value>> \o rest.values]
         : first \in nested(handleSchema(schema, options)),
           rest \in generateMany(schema, options, count - 1) }

\* numbers of a small range, with and without constraints the number handler
\* does not read
Bit == vPipe(vNumber, <<minValue(0), maxValue(1), integer>>)
Even == vPipe(vNumber, <<minValue(0), maxValue(3), integer, multipleOf(2)>>)
Impossible == vPipe(vNumber, <<minValue(1), maxValue(1), integer, multipleOf(2)>>)

\* the schemas a generator is created for
Schemas ==
  { vLiteral(NumberOf(1)), Bit, Even, Impossible, [type |-> "never"],
    vPipe(vNumber, <<minValue(0), maxValue(1)>>),
    vPipe(Bit, <<fake({NumberOf(0), NumberOf(5)}, FALSE)>>),
    vPipe(Bit, <<fake({NumberOf(5)}, FALSE)>>),
    vPipe(Bit, <<fake({VOID}, FALSE)>>),
    vPipe(Bit, <<fake({NumberOf(1)}, TRUE)>>), vPipe(Impossible, <<fake({NumberOf(5)}, FALSE)>>),
    vPipe(vNumber, <<minValue(0), maxValue(1), integer, fake({NumberOf(1), Between(0)}, FALSE)>>),
    vOptional(Bit), vNonNullable(Bit),
    [type |-> "union", options |-> <<vLiteral(NumberOf(1)), Even>>],
    vObject(<<[key |-> "a", schema |-> vOptional(vLiteral(NumberOf(1)))]>>),
    vObject(<<[key |-> "a", schema |-> vOptional(Bit)], [key |-> "b", schema |-> Even]>>),
    vObject(<<[key |-> "a", schema |-> Bit], [key |-> "b", schema |-> Impossible]>>),
    vObject(<<[key |-> "a", schema |-> vNonNullable(Bit)]>>) }

(***************************************************************************)
(* The state machine: a caller holds one pattern and makes one call.       *)
(* result is what the call returned; run holds the values the call         *)
(* computed on the way.                                                    *)
(***************************************************************************)
\* schema is the schema a mock generator was created for
VARIABLES regex, call, result, run, schema
vars == <<regex, call, result, run, schema>>

NoCall == [op |-> "none"]
Pending == [pending |-> TRUE]

Init ==
  /\ regex \in Inputs
  /\ call = NoCall
  /\ result = Pending
  /\ run = Pending
  /\ schema = NoSchema

CallRegexToStringMinMax ==
  /\ call = NoCall
  /\ \E minLength \in 0..MaxLength, options \in OptionSets :
       \E maxLength \in (minLength..MaxLength) \cup {WideLength} :
         \E r \in {regexToStringMinMax(regex, minLength, maxLength, options)} :
           /\ call' = [op |-> "regexToStringMinMax", minLength |-> minLength,
                       maxLength |-> maxLength, options |-> options]
           /\ result' = r.result
           /\ run' = r
  /\ UNCHANGED <<regex, schema>>

CallParseRegex ==
  /\ call = NoCall
  /\ \E r \in {parseRegex(regex)} :
       /\ call' = [op |-> "parseRegex"]
       /\ result' = r
       /\ run' = [result |-> r, parsed |-> r]
  /\ UNCHANGED <<regex, schema>>

CallEstimateMinLength ==
  /\ call = NoCall
  /\ \E r \in {estimateMinLength(regex)} :
       /\ call' = [op |-> "estimateMinLength"]
       /\ result' = r.result
       /\ run' = r
  /\ UNCHANGED <<regex, schema>>

CallEstimateMaxLength ==
  /\ call = NoCall
  /\ \E r \in {estimateMaxLength(regex)} :
       /\ call' = [op |-> "estimateMaxLength"]
       /\ result' = r.result
       /\ run' = r
  /\ UNCHANGED <<regex, schema>>

CallAnalyzeRegex ==
  /\ call = NoCall
  /\ \E r \in {analyzeRegex(regex)} :
       /\ call' = [op |-> "analyzeRegex"]
       /\ result' = r.result
       /\ run' = r
  /\ UNCHANGED <<regex, schema>>

\* regexToString(parseRegex(regex), options)
CallRegexToString ==
  /\ call = NoCall
  /\ \E options \in StringOptionSets :
       \E parsed \in {parseRegex(regex)} :
         \E r \in {IF parsed.threw THEN [result |-> Thrown, parsed |-> parsed]
                   ELSE regexToString(parsed, options)} :
           /\ call' = [op |-> "regexToString", options |-> options]
           /\ result' = r.result
           /\ run' = r
  /\ UNCHANGED <<regex, schema>>

Next ==
  \/ CallParseRegex
  \/ CallEstimateMinLength
  \/ CallEstimateMaxLength
  \/ CallAnalyzeRegex
  \/ CallRegexToString
  \/ CallRegexToStringMinMax

Spec == Init /\ [][Next]_vars

(***************************************************************************)
(* The schema walker as a state machine: a caller creates a generator for  *)
(* one schema and makes one call.                                          *)
(***************************************************************************)
WalkerInit ==
  /\ schema \in Schemas
  /\ regex = RegExpOf(<<"a">>, <<>>)
  /\ call = NoCall
  /\ result = Pending
  /\ run = Pending

\* createMockGenerator(schema, {maxAttempts}).generate(); maxAttempts NULL: left out
CallGenerate ==
  /\ call = NoCall
  /\ \E maxAttempts \in {NULL} \cup (0..MaxAttempts) :
       \E outcome \in handleSchema(schema, resolvedOptions(maxAttempts)) :
         /\ call' = [op |-> "generate", options |-> resolvedOptions(maxAttempts)]
         /\ result' = [threw |-> outcome.threw, value |-> outcome.value]
         /\ run' = outcome
  /\ UNCHANGED <<regex, schema>>

\* createMockGenerator(schema, {maxAttempts}).generateMany(count)
CallGenerateMany ==
  /\ call = NoCall
  /\ \E maxAttempts \in {NULL} \cup (0..MaxAttempts), count \in 0..MaxCount :
       \E outcome \in generateMany(schema, resolvedOptions(maxAttempts), count) :
         /\ call' = [op |-> "generateMany", options |-> resolvedOptions(maxAttempts),
                     count |-> count]
         /\ result' = outcome
         /\ run' = outcome
  /\ UNCHANGED <<regex, schema>>

WalkerNext ==
  \/ CallGenerate
  \/ CallGenerateMany

WalkerSpec == WalkerInit /\ [][WalkerNext]_vars

(***************************************************************************)
(* The call under inspection.                                              *)
(***************************************************************************)
Called == call.op = "regexToStringMinMax"
Returned == Called /\ ~result.threw
\* the structural minimum of the input against the requested maxLength
Infeasible == Returned /\ run.currentEstimate.min > call.maxLength
Feasible == Returned /\ run.currentEstimate.min <= call.maxLength

(***************************************************************************)
(* C1: every result of regexToStringMinMax either carries a warning or    *)
(* reports achieved bounds inside the requested window: actualMinLength    *)
(* >= minLength and actualMaxLength finite and <= maxLength.               *)
(***************************************************************************)
C1_WarningOrInsideWindow ==
  Returned =>
    \/ result.warning # "undefined"
    \/ /\ result.actualMinLength >= call.minLength
       /\ result.actualMaxLength # NULL
       /\ result.actualMaxLength <= call.maxLength

(***************************************************************************)
(* C2: isExact is true exactly when actualMinLength >= minLength and       *)
(* actualMaxLength is bounded and <= maxLength; an unbounded achieved max  *)
(* is never reported as exact.                                             *)
(***************************************************************************)
C2_ExactIffInsideWindow ==
  Returned =>
    (result.isExact <=>
       /\ result.actualMinLength >= call.minLength
       /\ result.actualMaxLength # NULL
       /\ result.actualMaxLength <= call.maxLength)

(***************************************************************************)
(* C3: when the structural minimum of the input exceeds maxLength, the     *)
(* call returns (does not throw) with a warning, isExact = FALSE and the   *)
(* estimator's bound of the untouched input as achieved bounds.            *)
(***************************************************************************)
C3_InfeasibleIsReported ==
  (Called /\ ~run.parsed.threw /\ run.currentEstimate.min > call.maxLength) =>
    /\ ~result.threw
    /\ result.warning # "undefined"
    /\ result.isExact = FALSE
    /\ result.actualMinLength = estimate(run.parsed.pattern).min
    /\ result.actualMaxLength = estimate(run.parsed.pattern).max

C3_Witness ==
  /\ Infeasible
  /\ result.warning = "Cannot meet maxLength"
  /\ result.actualMinLength > call.maxLength
  /\ result.candidates.defined

(***************************************************************************)
(* C4: rewriting only narrows: for every repetition with counts            *)
(* (qmin, qmax) the rewritten counts (min', max') satisfy qmin <= min' and *)
(* max' <= qmax, in global-target mode and in per-assignment mode.         *)
(***************************************************************************)
Narrowed(rewrite) ==
  /\ rewrite.node.min <= rewrite.limits.min
  /\ rewrite.limits.max <= rewrite.node.max

C4_RewritingNarrows ==
  /\ Feasible => \A i \in 1..Len(run.rewrites) : Narrowed(run.rewrites[i])
  /\ Returned =>
       \A k \in 1..Len(run.generator.rewrites) :
         \A i \in 1..Len(run.generator.rewrites[k]) : Narrowed(run.generator.rewrites[k][i])

(***************************************************************************)
(* C5: re-parsing the rewritten text gives a tree identical to the input   *)
(* tree in every construct but the repetition counts: same alternation     *)
(* branches, groups, assertions (with negation), backreferences and        *)
(* character sets and classes (with negation).                             *)
(***************************************************************************)
RECURSIVE Skeleton(_)
Skeleton(node) ==
  CASE node.type = "Quantifier" -> [type |-> "Quantifier", element |-> Skeleton(node.element)]
    [] node.type = "Pattern" ->
         [type |-> "Pattern",
          alternatives |-> [i \in 1..Len(node.alternatives) |-> Skeleton(node.alternatives[i])]]
    [] node.type = "Alternative" ->
         [type |-> "Alternative",
          elements |-> [i \in 1..Len(node.elements) |-> Skeleton(node.elements[i])]]
    [] node.type = "Group" ->
         [type |-> "Group",
          alternatives |-> [i \in 1..Len(node.alternatives) |-> Skeleton(node.alternatives[i])]]
    [] node.type = "CapturingGroup" ->
         [type |-> "CapturingGroup", name |-> node.name,
          alternatives |-> [i \in 1..Len(node.alternatives) |-> Skeleton(node.alternatives[i])]]
    [] node.type = "Assertion" ->
         [type |-> "Assertion", kind |-> node.kind, negate |-> node.negate,
          alternatives |-> [i \in 1..Len(node.alternatives) |-> Skeleton(node.alternatives[i])]]
    [] OTHER -> node

\* the transformed text parses to the structure of the input
StructureKept ==
  /\ ~run.reparsed.threw
  /\ Skeleton(run.reparsed.pattern) = Skeleton(run.parsed.pattern)

C5_RewritingKeepsStructure == Feasible => StructureKept

(***************************************************************************)
(* C6: in global-target mode every repetition (qmin, qmax) is rewritten to *)
(* min' = min(qmin, targetMin), max' = min(qmax, targetMax), an unbounded  *)
(* qmax counting as infinity, so unbounded repetitions become bounded by   *)
(* targetMax.  The counts read back from the transformed text are these.   *)
(***************************************************************************)
C6_GlobalTargetClamp ==
  Feasible =>
    /\ \A i \in 1..Len(run.rewrites) :
         LET q == run.rewrites[i].node
             lim == run.rewrites[i].limits
         IN /\ lim.min = Min2(q.min, call.minLength)
            /\ lim.max = (IF q.max = Infinity THEN call.maxLength ELSE Min2(q.max, call.maxLength))
    /\ StructureKept =>
         LET rq == transformedQuantifiers(run.reparsed.pattern)
         IN \A i \in 1..Len(run.rewrites) :
              /\ rq[i].min = Min2(run.rewrites[i].node.min, call.minLength)
              /\ rq[i].max = Min2(run.rewrites[i].node.max, call.maxLength)

C6_Witness ==
  /\ Feasible
  /\ StructureKept
  /\ \E i \in 1..Len(run.rewrites) :
       /\ run.rewrites[i].node.max = Infinity
       /\ run.rewrites[i].node.min > call.minLength
       /\ transformedQuantifiers(run.reparsed.pattern)[i].max = call.maxLength
       /\ transformedQuantifiers(run.reparsed.pattern)[i].min = call.minLength

(***************************************************************************)
(* C7: every repetition the rewriter serializes has min' <= max', in       *)
(* global-target mode and for every assignment the candidate generator     *)
(* builds, and the text written for it reads back as a quantifier whose    *)
(* numbers are in order.                                                   *)
(***************************************************************************)
InOrder(rewrite) ==
  /\ rewrite.limits.min <= rewrite.limits.max
  /\ LET read == consumeQuantifier(rewrite.text, 1)
     IN read.present /\ read.ok /\ read.pos = Len(rewrite.text) + 1

C7_NoInvertedRange ==
  /\ Feasible => \A i \in 1..Len(run.rewrites) : InOrder(run.rewrites[i])
  /\ Returned =>
       \A k \in 1..Len(run.generator.rewrites) :
         \A i \in 1..Len(run.generator.rewrites[k]) : InOrder(run.generator.rewrites[k][i])

C7_Witness ==
  /\ Feasible
  /\ Len(run.generator.built) >= 2
  /\ \E i \in 1..Len(run.rewrites) :
       /\ run.rewrites[i].node.min > call.minLength
       /\ run.rewrites[i].node.max > call.maxLength
       /\ run.rewrites[i].limits.min < run.rewrites[i].limits.max

(***************************************************************************)
(* C8: (amended) a rewritten repetition (min, max) is written '?' for      *)
(* (0,1), '*' for (0,unbounded), '+' for (1,unbounded), '{n}' when         *)
(* min = max = n, '{min,}' for an unbounded max with min >= 2 and          *)
(* '{min,max}' otherwise; a trailing '?' follows every form except '{n}'   *)
(* when the node was lazy or, in global-target mode, preferLazy was        *)
(* requested.  The form '{n}' is written without the lazy marker.          *)
(***************************************************************************)
QuantifierForm(min, max, lazy, lazyOnExact) ==
  LET lz == IF lazy THEN <<"?">> ELSE <<>>
  IN CASE min = 0 /\ max = 1 -> <<"?">> \o lz
       [] min = 0 /\ max = Infinity -> <<"*">> \o lz
       [] min = 1 /\ max = Infinity -> <<"+">> \o lz
       [] min = max -> <<"{", ToString(min), "}">> \o (IF lazyOnExact THEN lz ELSE <<>>)
       [] min >= 2 /\ max = Infinity -> <<"{", ToString(min), ",", "}">> \o lz
       [] OTHER -> <<"{", ToString(min), ",", ToString(max), "}">> \o lz

WrittenAs(rewrite, lazy, lazyOnExact) ==
  rewrite.text = QuantifierForm(rewrite.limits.min, rewrite.limits.max, lazy, lazyOnExact)

SerializedAs(lazyOnExact) ==
  /\ Feasible =>
       \A i \in 1..Len(run.rewrites) :
         WrittenAs(run.rewrites[i],
                   ~run.rewrites[i].node.greedy \/ call.options.preferLazy, lazyOnExact)
  /\ Returned =>
       \A k \in 1..Len(run.generator.rewrites) :
         \A i \in 1..Len(run.generator.rewrites[k]) :
           WrittenAs(run.generator.rewrites[k][i],
                     ~run.generator.rewrites[k][i].node.greedy, lazyOnExact)

\* the input is one quantified element and nothing else
SingleQuantifier ==
  /\ Len(run.parsed.pattern.alternatives) = 1
  /\ Len(run.parsed.pattern.alternatives[1].elements) = 1
  /\ run.parsed.pattern.alternatives[1].elements[1].type = "Quantifier"

C8_Serialization ==
  /\ SerializedAs(FALSE)
  /\ (Feasible /\ SingleQuantifier) =>
       LET q == run.parsed.pattern.alternatives[1].elements[1]
       IN result.transformed
            = transformElement(q.element, MinMaxTransformer(call.minLength, call.maxLength,
                                                           call.options.preferLazy))
              \o QuantifierForm(Min2(q.min, call.minLength),
                                IF q.max = Infinity THEN call.maxLength
                                ELSE Min2(q.max, call.maxLength),
                                ~q.greedy \/ call.options.preferLazy, FALSE)

\* the statement of C8 as claimed: the lazy marker follows every form
C8_LazyOnEveryForm == SerializedAs(TRUE)

C8_Witness ==
  /\ Feasible
  /\ SingleQuantifier
  /\ ~run.parsed.pattern.alternatives[1].elements[1].greedy
  /\ result.transformed = <<"a", "{", "2", "}">>

(***************************************************************************)
(* C9: for a pattern whose only repetition is an unbounded '+' over a      *)
(* single-character element, optionally between anchors, and for           *)
(* minLength = maxLength = n >= 1, generateCandidates with                 *)
(* candidateCount = 1 gives exactly one candidate with min = max = n.      *)
(***************************************************************************)
PlusOverSingleCharacter ==
  /\ Len(run.parsed.pattern.alternatives) = 1
  /\ LET elements == run.parsed.pattern.alternatives[1].elements
         repeated == SelectSeq(elements, LAMBDA e : e.type # "Assertion")
     IN /\ Len(repeated) = 1
        /\ repeated[1].type = "Quantifier"
        /\ repeated[1].min = 1
        /\ repeated[1].max = Infinity
        /\ repeated[1].element.type \in {"Character", "CharacterSet", "CharacterClass"}
        /\ \A i \in 1..Len(elements) :
             elements[i].type = "Assertion" => elements[i].kind \in {"start", "end"}

C9_ExactLengthCandidate ==
  (/\ Returned
   /\ PlusOverSingleCharacter
   /\ call.options.generateCandidates
   /\ call.options.candidateCount = 1
   /\ call.minLength = call.maxLength
   /\ call.minLength >= 1) =>
    /\ result.candidates.defined
    /\ Len(result.candidates.list) = 1
    /\ result.candidates.list[1].minLength = call.minLength
    /\ result.candidates.list[1].maxLength = call.minLength

(***************************************************************************)
(* C10: (amended) in the feasible case every candidate that comes from a   *)
(* target-length assignment accepted by the range test has                 *)
(* minLength <= candidate.minLength <= maxLength.  The single candidate    *)
(* of a pattern without repetitions, the one of a pattern without          *)
(* growable repetitions and the fallback candidate are not held to the     *)
(* range.                                                                  *)
(***************************************************************************)
CandidatesInRange ==
  \A i \in 1..Len(result.candidates.list) :
    /\ call.minLength <= result.candidates.list[i].minLength
    /\ result.candidates.list[i].minLength <= call.maxLength

C10_AcceptedCandidatesInRange ==
  (Feasible /\ result.candidates.defined /\ run.generator.inRange) => CandidatesInRange

\* the statement of C10 as claimed: every candidate of the feasible case
C10_EveryCandidateInRange ==
  (Feasible /\ result.candidates.defined) => CandidatesInRange

C10_Witness ==
  /\ Feasible
  /\ result.candidates.defined
  /\ run.generator.inRange
  /\ Len(result.candidates.list) >= 2
  /\ result.candidates.list[1].minLength # result.candidates.list[2].minLength

(***************************************************************************)
(* The other calls under inspection.                                       *)
(***************************************************************************)
Analyzed == call.op = "analyzeRegex" /\ ~result.threw
\* the candidates of a call that asked for them
Generated == Returned /\ call.options.generateCandidates

(***************************************************************************)
(* C11: for every parseable pattern, every requested range and every      *)
(* count >= 1, the candidate generator returns at least one candidate and  *)
(* never more than count candidates.                                       *)
(***************************************************************************)
C11_BetweenOneAndCount ==
  Generated =>
    /\ result.candidates.defined
    /\ Len(result.candidates.list) >= 1
    /\ Len(result.candidates.list) <= candidateCountOf(call.options)

(***************************************************************************)
(* C12: for a pattern with zero repetition nodes the candidate generator   *)
(* returns exactly one candidate, for any minLength, maxLength and count:  *)
(* its text is the unchanged pattern text of the input and its             *)
(* (minLength, maxLength) is the estimator's bound of the input pattern.   *)
(***************************************************************************)
NoRepetitions ==
  \A n \in Range(visitRegExpAST(run.parsed.pattern)) : n.type # "Quantifier"

\* text is the input's text, without the delimiters and flags when the
\* input is a string that has them
IsInputText(text) ==
  \/ regex.source = text
  \/ /\ ~regex.isRegExp
     /\ \E n \in 0..Len(regex.source) :
          regex.source = <<"/">> \o text \o <<"/">>
                         \o SubSeq(regex.source, Len(regex.source) - n + 1, Len(regex.source))

C12_UnchangedSingleCandidate ==
  (Generated /\ NoRepetitions) =>
    /\ Len(result.candidates.list) = 1
    /\ IsInputText(result.candidates.list[1].regex)
    /\ parseRegex(StringOf(result.candidates.list[1].regex)).pattern = run.parsed.pattern
    /\ result.candidates.list[1].minLength = run.currentEstimate.min
    /\ result.candidates.list[1].maxLength = run.currentEstimate.max

C12_Witness ==
  /\ Generated
  /\ NoRepetitions
  /\ Len(run.parsed.pattern.alternatives) = 2
  /\ call.options.candidateCount = 2
  /\ Len(result.candidates.list) = 1
  /\ result.candidates.list[1].minLength # call.minLength
  /\ result.candidates.list[1].maxLength # call.maxLength

(***************************************************************************)
(* C13: for any sequence of elements with bounds (min_i, max_i) the        *)
(* estimator's bound of the sequence is (sum of min_i, sum of max_i), and  *)
(* the max is unbounded whenever at least one max_i is unbounded,          *)
(* whatever the position of that element in the sequence.                  *)
(***************************************************************************)
\* the bound the estimator computed for a node of the analysed pattern
BoundOf(node) == (CHOOSE v \in Range(run.visits) : v.node = node).bound

RECURSIVE Sum(_)
Sum(numbers) == IF numbers = <<>> THEN 0 ELSE Head(numbers) + Sum(Tail(numbers))

Additive(bound, parts) ==
  /\ bound.min = Sum([i \in 1..Len(parts) |-> parts[i].min])
  /\ bound.max = IF \E i \in 1..Len(parts) : parts[i].max = NULL THEN NULL
                 ELSE Sum([i \in 1..Len(parts) |-> parts[i].max])

C13_SequenceAdditivity ==
  Analyzed =>
    \A v \in Range(run.visits) :
      v.node.type = "Alternative" =>
        Additive(v.bound, [i \in 1..Len(v.node.elements) |-> BoundOf(v.node.elements[i])])

\* an unbounded element followed by a bounded one that consumes input
C13_Witness ==
  /\ Analyzed
  /\ \E v \in Range(run.visits) :
       /\ v.node.type = "Alternative"
       /\ Len(v.node.elements) = 2
       /\ BoundOf(v.node.elements[1]).max = NULL
       /\ BoundOf(v.node.elements[2]).max >= 1
       /\ v.bound.min >= 2
       /\ v.bound.max = NULL

(***************************************************************************)
(* C14: for an alternation (at top level or inside a group) with branch    *)
(* bounds (min_k, max_k) the estimator returns min = the minimum of the    *)
(* min_k and max = the maximum of the max_k, with max unbounded whenever   *)
(* any branch is unbounded, independent of branch order; for a             *)
(* quantifier-free alternation regexToStringMinMax reports                 *)
(* actualMinLength equal to the shortest branch length.                    *)
(***************************************************************************)
Envelope(bound, branches) ==
  /\ \E k \in 1..Len(branches) : bound.min = branches[k].min
  /\ \A k \in 1..Len(branches) : bound.min <= branches[k].min
  /\ IF \E k \in 1..Len(branches) : branches[k].max = NULL
     THEN bound.max = NULL
     ELSE /\ \E k \in 1..Len(branches) : bound.max = branches[k].max
          /\ \A k \in 1..Len(branches) : bound.max >= branches[k].max

AlternationEnvelope ==
  Analyzed =>
    \A v \in Range(run.visits) :
      v.node.type \in {"Pattern", "Group", "CapturingGroup"} =>
        Envelope(v.bound, [k \in 1..Len(v.node.alternatives) |-> BoundOf(v.node.alternatives[k])])

\* the length of the shortest string a tree without repetitions matches
RECURSIVE ShortestLength(_)
ShortestLength(node) ==
  CASE node.type \in {"Character", "CharacterSet", "CharacterClass"} -> 1
    [] node.type = "Alternative" ->
         Sum([i \in 1..Len(node.elements) |-> ShortestLength(node.elements[i])])
    [] node.type \in {"Pattern", "Group", "CapturingGroup"} ->
         CHOOSE n \in 0..64 :
           /\ \E k \in 1..Len(node.alternatives) : n = ShortestLength(node.alternatives[k])
           /\ \A k \in 1..Len(node.alternatives) : n <= ShortestLength(node.alternatives[k])
    [] OTHER -> 0

HasAlternation ==
  \E n \in Range(visitRegExpAST(run.parsed.pattern)) :
    n.type \in {"Pattern", "Group", "CapturingGroup"} /\ Len(n.alternatives) >= 2

ShortestBranchReported ==
  (Returned /\ NoRepetitions /\ HasAlternation) =>
    result.actualMinLength = ShortestLength(run.parsed.pattern)

C14_AlternationEnvelope == AlternationEnvelope /\ ShortestBranchReported

(***************************************************************************)
(* C15: for a repetition with counts (qmin, qmax) over an element with     *)
(* bound (im, ix) the estimator returns min = qmin * im and                *)
(* max = qmax * ix, and the max is unbounded if qmax is unbounded or ix is *)
(* unbounded; so X+ has (im, unbounded), X* has (0, unbounded) and X{a,b}  *)
(* has (a * im, b * ix), also for nested repetitions.                      *)
(***************************************************************************)
Repeated(bound, qmin, qmax, inner) ==
  /\ bound.min = qmin * inner.min
  /\ bound.max = IF qmax = Infinity \/ inner.max = NULL THEN NULL ELSE qmax * inner.max

C15_RepetitionProduct ==
  Analyzed =>
    \A v \in Range(run.visits) :
      v.node.type = "Quantifier" =>
        Repeated(v.bound, v.node.min, v.node.max, BoundOf(v.node.element))

\* a bounded repetition of a group that holds a bounded repetition
C15_Witness ==
  /\ Analyzed
  /\ \E v \in Range(run.visits) :
       /\ v.node.type = "Quantifier"
       /\ v.node.min = 2
       /\ v.node.max = 2
       /\ v.node.element.type = "CapturingGroup"
       /\ BoundOf(v.node.element) = [min |-> 1, max |-> 2]
       /\ v.bound = [min |-> 2, max |-> 4]

(***************************************************************************)
(* C16: every zero-width assertion node contributes the bound (0,0) to     *)
(* the estimator, so a pattern made only of assertions has min = max = 0   *)
(* and adding anchors to a pattern never changes its estimated bound.      *)
(***************************************************************************)
AssertionKinds == {"start", "end", "word", "lookahead", "lookbehind"}

\* the tree without the assertions of the given kinds
RECURSIVE Stripped(_, _)
Stripped(node, kinds) ==
  CASE node.type = "Alternative" ->
         [node EXCEPT !.elements =
            [i \in 1..Len(SelectSeq(node.elements,
                                    LAMBDA e : ~(e.type = "Assertion" /\ e.kind \in kinds))) |->
               Stripped(SelectSeq(node.elements,
                                  LAMBDA e : ~(e.type = "Assertion" /\ e.kind \in kinds))[i], kinds)]]
    [] node.type \in {"Pattern", "Group", "CapturingGroup"} ->
         [node EXCEPT !.alternatives =
            [k \in 1..Len(node.alternatives) |-> Stripped(node.alternatives[k], kinds)]]
    [] node.type = "Quantifier" -> [node EXCEPT !.element = Stripped(node.element, kinds)]
    [] OTHER -> node

OnlyAssertions ==
  \A k \in 1..Len(run.parsed.pattern.alternatives) :
    \A e \in Range(run.parsed.pattern.alternatives[k].elements) : e.type = "Assertion"

ReportedBound == [min |-> result.minLength, max |-> result.maxLength]

C16_AssertionsAreZeroWidth ==
  Analyzed =>
    /\ \A v \in Range(run.visits) :
         v.node.type = "Assertion" => v.bound = [min |-> 0, max |-> 0]
    /\ OnlyAssertions => ReportedBound = [min |-> 0, max |-> 0]
    /\ ReportedBound = estimate(Stripped(run.parsed.pattern, AssertionKinds))

\* a lookahead whose contents consume input, in a pattern that consumes input
C16_Witness ==
  /\ Analyzed
  /\ result.minLength >= 1
  /\ \E v \in Range(run.visits) :
       /\ v.node.type = "Assertion"
       /\ v.node.kind = "lookahead"
       /\ estimate(v.node.alternatives[1]).min >= 1
       /\ v.bound = [min |-> 0, max |-> 0]

(***************************************************************************)
(* C17: (amended) any pattern containing a backreference is reported by    *)
(* analyzeRegex with hasBackreferences = true; a backreference node has    *)
(* the bound (0, unbounded), and the reported maxLength is unbounded       *)
(* whenever a backreference occurs outside every lookaround (inside a      *)
(* sequence, group, alternation branch or repetition).  A lookaround       *)
(* contributes (0,0) whatever it contains.                                 *)
(***************************************************************************)
\* the pattern text holds \1 .. \9 or \k<name>
BackreferenceInText ==
  \E i \in 1..(Len(regex.source) - 1) :
    /\ regex.source[i] = "\\"
    /\ regex.source[i + 1] \in (Numerals \ {"0"}) \cup {"k"}
    /\ (i = 1 \/ regex.source[i - 1] # "\\")

BackreferenceEstimated == \E v \in Range(run.visits) : v.node.type = "Backreference"

C17_BackreferenceOutsideLookarounds ==
  (Analyzed /\ BackreferenceInText) =>
    /\ result.hasBackreferences
    /\ \A v \in Range(run.visits) :
         v.node.type = "Backreference" => v.bound = [min |-> 0, max |-> NULL]
    /\ BackreferenceEstimated => result.maxLength = NULL

\* the statement of C17 as claimed: unbounded in every context
C17_BackreferenceUnbounded ==
  (Analyzed /\ BackreferenceInText) =>
    /\ result.hasBackreferences
    /\ result.maxLength = NULL

\* a backreference repeated zero times
C17_Witness ==
  /\ Analyzed
  /\ BackreferenceInText
  /\ result.hasBackreferences
  /\ result.maxLength = NULL
  /\ \E v \in Range(run.visits) :
       /\ v.node.type = "Quantifier"
       /\ v.node.max = 0
       /\ v.node.element.type = "Backreference"

(***************************************************************************)
(* C18: (amended) for a pattern containing a lookahead or lookbehind,      *)
(* analyzeRegex reports hasLookarounds = true and the estimator counts     *)
(* each lookaround as (0,0) instead of guessing a length for its           *)
(* contents: the reported bound is the bound of the pattern with the       *)
(* lookarounds taken out, so the max is unbounded only when a construct    *)
(* outside the lookarounds is unbounded.                                   *)
(***************************************************************************)
\* the pattern text holds (?= (?! (?<= or (?<!
LookaroundInText ==
  \E i \in 1..(Len(regex.source) - 2) :
    /\ regex.source[i] = "("
    /\ regex.source[i + 1] = "?"
    /\ \/ regex.source[i + 2] \in {"=", "!"}
       \/ regex.source[i + 2] = "<" /\ At(regex.source, i + 3) \in {"=", "!"}
    /\ (i = 1 \/ regex.source[i - 1] # "\\")

C18_LookaroundsCountAsEmpty ==
  (Analyzed /\ LookaroundInText) =>
    /\ result.hasLookarounds
    /\ ReportedBound = estimate(Stripped(run.parsed.pattern, {"lookahead", "lookbehind"}))

\* the statement of C18 as claimed: the max is unbounded
C18_LookaroundUnbounded ==
  (Analyzed /\ LookaroundInText) => result.maxLength = NULL

\* a lookbehind with unbounded contents in a pattern with a finite bound
C18_Witness ==
  /\ Analyzed
  /\ LookaroundInText
  /\ result.hasLookarounds
  /\ result.maxLength = 1
  /\ \E n \in Range(visitRegExpAST(run.parsed.pattern)) :
       /\ n.type = "Assertion"
       /\ n.kind = "lookbehind"
       /\ estimate(n.alternatives[1]).max = NULL

(***************************************************************************)
(* C19: for every node of every pattern tree in which each repetition has  *)
(* qmin <= qmax, the estimator's bound satisfies 0 <= min and, whenever    *)
(* max is finite, min <= max; this holds for the bound of every sub-tree,  *)
(* not only of the root.                                                   *)
(***************************************************************************)
RepetitionsInOrder ==
  \A n \in Range(visitRegExpAST(run.parsed.pattern)) : n.type = "Quantifier" => n.min <= n.max

C19_MinNotAboveMax ==
  (Analyzed /\ RepetitionsInOrder) =>
    \A v \in Range(run.visits) :
      /\ 0 <= v.bound.min
      /\ v.bound.max # NULL => v.bound.min <= v.bound.max

\* a repeated group of two branches of different lengths
C19_Witness ==
  /\ Analyzed
  /\ RepetitionsInOrder
  /\ \E v \in Range(run.visits) :
       /\ v.node.type = "Quantifier"
       /\ v.node.element.type = "Group"
       /\ Len(v.node.element.alternatives) = 2
       /\ v.bound.max # NULL
       /\ 0 < v.bound.min
       /\ v.bound.min < v.bound.max

(***************************************************************************)
(* C20: when the original input is not a syntactically valid pattern,      *)
(* each public operation (parseRegex, estimateMinLength,                   *)
(* estimateMaxLength, analyzeRegex, regexToStringMinMax) fails with an     *)
(* error; none of them returns a normal result for an unparseable input.   *)
(***************************************************************************)
\* text is a whole pattern: a disjunction that ends where the text ends
IsPattern(text) ==
  \E d \in {consumeDisjunction(text, 1)} : d.ok /\ d.pos = Len(text) + 1

\* a RegExp object or pattern text that is a pattern, or a delimited
\* literal /pattern/flags
ValidInput ==
  IF regex.isRegExp THEN IsPattern(regex.source) /\ validFlags(regex.flags)
  ELSE IF startsWithSlash(regex.source) THEN parseRegExpLiteral(regex.source).ok
  ELSE IsPattern(regex.source)

C20_InvalidInputThrows ==
  (call # NoCall /\ ~ValidInput) => result.threw
\* a call that asks for candidates on text that is not a pattern
C20_Witness ==
  /\ Called
  /\ call.options.generateCandidates
  /\ ~regex.isRegExp
  /\ ~startsWithSlash(regex.source)
  /\ ~ValidInput
  /\ result.threw

(***************************************************************************)
(* C21: when the rewritten text of one target length fails to re-parse or  *)
(* re-estimate, only that candidate is dropped: the candidate generator    *)
(* continues with the remaining target lengths, returns the candidates of  *)
(* the targets that succeeded, and never raises the failure to the caller  *)
(* of regexToStringMinMax.                                                 *)
(***************************************************************************)
\* the text written for an assignment parses
TextParses(config) ==
  ~parseRegex(StringOf(applyQuantifierConfiguration(run.parsed.pattern, config))).threw

\* the candidates are those of the returned assignments whose text parses
CandidatesOfParsedTexts ==
  \E kept \in {SelectSeq(run.generator.configurations, TextParses)} :
    /\ Len(result.candidates.list) = Len(kept)
    /\ \A i \in 1..Len(kept) :
         result.candidates.list[i].regex =
           applyQuantifierConfiguration(run.parsed.pattern, kept[i])

C21_FailureDropsOneCandidate ==
  (Called /\ call.options.generateCandidates /\ ~run.parsed.threw) =>
    /\ ~result.threw
    /\ result.candidates.defined
    /\ Len(run.generator.quantifiers) > 0 =>
         /\ \A k \in 1..Len(run.generator.built) :
              (~TextParses(run.generator.built[k]) /\ k < Len(run.generator.targets)) =>
                Len(run.generator.built) > k
         /\ CandidatesOfParsedTexts

\* every target of a range of three was tried although each text failed
C21_Witness ==
  /\ Generated
  /\ Len(run.generator.targets) = 3
  /\ Len(run.generator.built) = 4
  /\ \A k \in 1..4 : ~TextParses(run.generator.built[k])
  /\ result.candidates.list = <<>>

(***************************************************************************)
(* C22: analyzeRegex reports, for every pattern: hasBackreferences iff     *)
(* the tree contains a backreference; hasLookarounds iff it contains a     *)
(* lookahead or lookbehind (not for start, end or word-boundary            *)
(* assertions); captureGroupCount = the number of capturing groups at any  *)
(* depth; hasNamedGroups iff a capturing group is named; flags = the flags *)
(* of the input; minLength / maxLength = the estimator's bound of the      *)
(* pattern.                                                                *)
(***************************************************************************)
\* position i of the pattern text opens a capturing group: ( or (?<name>
OpensCapturingGroup(i) ==
  /\ regex.source[i] = "("
  /\ (i = 1 \/ regex.source[i - 1] # "\\")
  /\ \/ At(regex.source, i + 1) # "?"
     \/ At(regex.source, i + 2) = "<" /\ At(regex.source, i + 3) \notin {"=", "!"}

OpensNamedGroup(i) == OpensCapturingGroup(i) /\ At(regex.source, i + 1) = "?"

\* the flags written after the pattern
InputFlags ==
  IF regex.isRegExp THEN regex.flags
  ELSE IF startsWithSlash(regex.source)
  THEN SubSeq(regex.source, lastIndexOfSlash(regex.source) + 1, Len(regex.source))
  ELSE <<>>

C22_RegexFacts ==
  Analyzed =>
    /\ result.hasBackreferences <=> BackreferenceInText
    /\ result.hasLookarounds <=> LookaroundInText
    /\ result.captureGroupCount =
         Cardinality({i \in 1..Len(regex.source) : OpensCapturingGroup(i)})
    /\ result.hasNamedGroups <=> \E i \in 1..Len(regex.source) : OpensNamedGroup(i)
    /\ result.flags = InputFlags
    /\ ReportedBound = estimate(run.parsed.pattern)

\* a capturing group inside a lookahead, and one outside
C22_Witness ==
  /\ Analyzed
  /\ result.hasLookarounds
  /\ result.captureGroupCount = 2
  /\ ~result.hasNamedGroups
  /\ ~result.hasBackreferences
  /\ \E n \in Range(visitRegExpAST(run.parsed.pattern)) :
       /\ n.type = "Assertion"
       /\ n.kind = "lookahead"
       /\ \E m \in Range(visitRegExpAST(n)) : m.type = "CapturingGroup"

(***************************************************************************)
(* C23: parseRegex normalizes its input to a delimiter-free source plus    *)
(* flags: for a RegExp the source is regex.source and the flags are its    *)
(* flags; for a string without delimiters the source is the string and the *)
(* flags are empty; for a string /body/flags the source is body and the    *)
(* flags are flags.  A valid bare pattern string without delimiters is     *)
(* always accepted, also one whose first character is '/'.                 *)
(***************************************************************************)
ParseRegexCalled == call.op = "parseRegex"

\* the string has the form /body/flags
IsDelimited == ~regex.isRegExp /\ parseRegExpLiteral(regex.source).ok
\* where the body of a delimited string ends
BodyEnd == eatRegExpBody(regex.source, 2, FALSE, FALSE)

C23_NormalizedSource ==
  ParseRegexCalled =>
    /\ regex.isRegExp =>
         ~result.threw /\ result.source = regex.source /\ result.flags = regex.flags
    /\ IsDelimited =>
         /\ ~result.threw
         /\ result.source = SubSeq(regex.source, 2, BodyEnd - 1)
         /\ result.flags = SubSeq(regex.source, BodyEnd + 1, Len(regex.source))
    /\ (~regex.isRegExp /\ ~IsDelimited /\ IsPattern(regex.source)) =>
         ~result.threw /\ result.source = regex.source /\ result.flags = <<>>

(***************************************************************************)
(* C24: every value returned by generate(), and every element returned by  *)
(* generateMany, passes validation against the full schema it was          *)
(* generated for, with all its pipe constraints and for every supported    *)
(* schema type; when no valid value is produced the call throws instead of *)
(* returning a value that was not validated.                               *)
(***************************************************************************)
C24_ReturnedValuesAreValid ==
  /\ (call.op = "generate" /\ ~result.threw) =>
       run.validated /\ safeParse(schema, result.value)
  /\ (call.op = "generateMany" /\ ~result.threw) =>
       \A i \in 1..Len(result.values) : safeParse(schema, result.values[i])

(***************************************************************************)
(* C25: for one schema node handleSchema makes at most maxAttempts         *)
(* generation attempts (default 10) before it gives up with a 'Max         *)
(* attempts reached' error, whether or not the schema carries a custom     *)
(* fake() generator; the retry loop always ends.                           *)
(***************************************************************************)
\* the attempts made for the schema of the generator, by the custom generator
\* and by the handler of the schema type
AttemptsMade == run.customAttempts + run.attempts

C25_AtMostMaxAttempts ==
  call.op = "generate" => AttemptsMade <= call.options.maxAttempts

(***************************************************************************)
(* C26: when some repetition can grow, the candidate generator tries a     *)
(* fixed small set of target lengths, in ascending order and without       *)
(* duplicates: {minLength} when maxLength - minLength = 0; {minLength,     *)
(* floor((minLength + maxLength) / 2), maxLength} when the range is at     *)
(* most 20; {min, min + 25%, min + 50%, min + 75%, max} (floored) when the *)
(* range exceeds 20.  It stops trying further targets once count           *)
(* assignments have been accepted, so at most min(count, 5) targets yield  *)
(* candidates.                                                             *)
(***************************************************************************)
\* the generator ran its loop over the target lengths
TargetsTried == Generated /\ run.generator.ran /\ Len(run.generator.targets) > 0

ExpectedTargets(minLength, maxLength) ==
  IF maxLength - minLength = 0 THEN {minLength}
  ELSE IF maxLength - minLength <= 20
  THEN {minLength, (minLength + maxLength) \div 2, maxLength}
  ELSE {minLength + (k * (maxLength - minLength)) \div 4 : k \in 0..4}

StrictlyAscending(seq) == \A i \in 1..(Len(seq) - 1) : seq[i] < seq[i + 1]

\* the number of targets for which an assignment was built (the fallback
\* assignment is built after the loop)
Tried == Len(run.generator.built) - (IF run.generator.inRange THEN 0 ELSE 1)
\* the assignments accepted by the loop
Accepted == IF run.generator.inRange THEN run.generator.configurations ELSE <<>>

Clamp(v, lo, hi) == Max2(lo, Min2(v, hi))

GrowableOf(quantifiers) == SelectSeq(quantifiers, isGrowable)

\* the count the claim gives a growable repetition for the target length
ClampedShare(q, targetLength, growable) ==
  Clamp(targetLength \div (growable * elemLengthOf(q)), q.min, q.max)

WithinOriginalBounds(q, limits) ==
  limits.min = limits.max /\ q.min <= limits.min /\ limits.max <= q.max

C27_AssignedCounts ==
  TargetsTried =>
    /\ \A k \in 1..Tried : \A q \in Range(run.generator.quantifiers) :
         IF isGrowable(q)
         THEN /\ run.generator.built[k][q].min =
                   ClampedShare(q, run.generator.targets[k],
                                Len(GrowableOf(run.generator.quantifiers)))
              /\ WithinOriginalBounds(q, run.generator.built[k][q])
         ELSE run.generator.built[k][q] = [min |-> q.min, max |-> q.max]
    /\ \A k \in 1..Len(run.generator.built) : \A q \in Range(run.generator.quantifiers) :
         WithinOriginalBounds(q, run.generator.built[k][q])

\* what holds of every assignment: one count per repetition, inside the
\* repetition's original bounds
CountsWithinOriginalBounds ==
  TargetsTried =>
    \A k \in 1..Len(run.generator.built) : \A q \in Range(run.generator.quantifiers) :
      WithinOriginalBounds(q, run.generator.built[k][q])

(***************************************************************************)
(* C28: in the feasible case the actualMinLength and actualMaxLength       *)
(* reported by regexToStringMinMax are always the estimator's bound of the *)
(* returned transformed text, obtained by re-parsing and re-estimating it; *)
(* the requested minLength / maxLength are never reported as achieved      *)
(* bounds without having been derived from the transformed text.           *)
(***************************************************************************)
C28_ReportedBoundIsReestimated ==
  Feasible =>
    /\ ~run.reparsed.threw
    /\ result.actualMinLength = estimate(run.reparsed.pattern).min
    /\ result.actualMaxLength = estimate(run.reparsed.pattern).max

(***************************************************************************)
(* C29: regexToString(parseRegex(p)) re-serializes a pattern without a     *)
(* length target and leaves the counts of every repetition unchanged:      *)
(* re-parsing its output gives, for each repetition node, the same         *)
(* (min, max) as in p, so the estimator's bound of the output equals that  *)
(* of p.                                                                   *)
(***************************************************************************)
RegexToStringReturned == call.op = "regexToString" /\ ~result.threw

\* the counts of the repetitions of a tree, in visiting order
CountsOf(pattern) ==
  [i \in 1..Len(SelectSeq(visitRegExpAST(pattern), LAMBDA n : n.type = "Quantifier")) |->
     [min |-> SelectSeq(visitRegExpAST(pattern), LAMBDA n : n.type = "Quantifier")[i].min,
      max |-> SelectSeq(visitRegExpAST(pattern), LAMBDA n : n.type = "Quantifier")[i].max]]

C29_CountsUnchanged ==
  RegexToStringReturned =>
    \E output \in {parseRegex(StringOf(result.text))} :
      /\ ~output.threw
      /\ CountsOf(output.pattern) = CountsOf(run.parsed.pattern)
      /\ estimate(output.pattern) = estimate(run.parsed.pattern)

(***************************************************************************)
(* C30: when the generator decides that an optional field of an object is  *)
(* absent, the generated object does not contain that key at all (the      *)
(* absent marker VOID of the optional handler reaches the object handler   *)
(* and the key is skipped), rather than containing the key with the value  *)
(* undefined.                                                              *)
(***************************************************************************)
C30_AbsentKeyIsSkipped ==
  (call.op = "generate" /\ ~result.threw /\ result.value.t = "object") =>
    \A key \in run.absent : key \notin Keys(result.value)
====
